---- MODULE Spec2Model ----
(***************************************************************************)
(* Field-completion transition tracking of the BAML streaming helpers.     *)
(*                                                                         *)
(*   baml_streaming.py          track_stream, simple_track       (ts_, st_)*)
(*   baml_streaming_helpers.py  RequiredFieldsChecker, StreamTimer,        *)
(*                              BAMLStreamProcessor         (chk_, tm_, ps_)*)
(*   fast_transition_processor.py  FastTransitionProcessor            (ft_)*)
(*   src/streaming_demo.py      UserProfileState, StreamingProcessor       *)
(*                                                              (up_, sp_) *)
(*   streaming_simulation.py    StreamingSimulation                  (sim_)*)
(*   conceptual_fast_transition_demo.py                                    *)
(*                              ConceptualFastTransitionDemo          (cf_)*)
(*   complex_employee_demo.py   complex_employee_streaming_demo       (ce_)*)
(*                                                                         *)
(* A behaviour runs one entry point; the variables of the others stay at   *)
(* their idle values.  An optional value (Optional[float]) is a set with   *)
(* at most one element: {} is None.  Times are integers; a read of the     *)
(* clock may find it advanced.                                             *)
(***************************************************************************)
EXTENDS Integers, Sequences, FiniteSets, TLC

\* ---------------------------------------------------------------- bounds
MaxPartials == 3
MaxTime == 1
MaxCalls == 2
MaxTotal == 10
MaxOverrun == 2
MaxTasks == 4

\* ---------------------------------------------------------------- schema
\* The fields of the schema class (model_fields) the helpers are run on.
AllFields == {"name", "email", "bio"}

\* The sets of fields a schema can mark as required: one per size, the
\* helpers treating every field name alike (the partials range over all
\* combinations of fields).
RequiredConfigs == {{}, {"name"}, {"name", "email"}, AllFields}

\* What a partial exposes for one declared attribute: no such attribute,
\* the attribute set to None, or a value.
AttrKinds == {"missing", "None", "value"}

Partials == [AllFields -> AttrKinds]

\* The partials a stream delivers are instances of the schema's partial
\* class: every declared attribute is there, None until its value arrives.
StreamPartials == [AllFields -> {"None", "value"}]

None == {}

Some(x) == {x}

\* Clock advance seen by one read of time.time().
Ticks(now) == {d \in 0..1 : now + d <= MaxTime}

VARIABLES
  \* track_stream / simple_track
  ts_pc, ts_mode, ts_required_fields, ts_handlers, ts_notified,
  ts_partial_count, ts_now, ts_state,
  st_total_time, st_partial_count, st_required_ready_time,
  st_all_complete_time, st_stats,
  \* history of the track_stream run
  ts_n_required_ready, ts_n_all_complete, ts_calls, ts_sat, ts_dropped,
  ts_ever, ts_error, ts_produced, ts_yielded,
  \* RequiredFieldsChecker
  chk_required_fields, chk_required_ready_triggered,
  chk_all_complete_triggered,
  \* history of the direct calls on a RequiredFieldsChecker
  chk_last, chk_n_required_true, chk_n_all_true,
  \* StreamTimer and BAMLStreamProcessor.process_stream
  tm_events, ps_pc, ps_handlers, ps_partial_count, ps_now, ps_elapsed,
  ps_field_states, ps_summary, ps_streams,
  \* history of the process_stream run
  ps_log, ps_sat, ps_dropped, ps_ever, ps_final, ps_error,
  ps_prev_all_complete,
  \* FastTransitionProcessor and its TransitionMetrics
  ft_pc, ft_has_triggered_fast_transition, ft_stream_start_time,
  ft_required_fields_ready_time, ft_all_fields_ready_time,
  ft_next_job_start_time, ft_next_job_complete_time, ft_update_count,
  ft_callback, ft_now, ft_jobs, ft_streams,
  \* history of the FastTransitionProcessor run
  ft_sat, ft_error,
  \* two runs of the required-ready check side by side, on two sequences
  \* of snapshots
  pr_kind, pr_required_fields, pr_step, pr_a, pr_b,
  \* one call of a function of the helpers: its arguments and its outcome
  fn_call,
  \* a checker fed the field-state maps of a stream of partials, with the
  \* conditions evaluated without the latch alongside
  mn_required_fields, mn_run,
  \* src/streaming_demo.py: the UserProfileState and its StreamingProcessor
  up_state, up_on_ready_for_next_job,
  sp_pc, sp_next_job_triggered, sp_welcome_message, sp_tasks, sp_running,
  sp_partial_count, sp_calls,
  \* history of the StreamingProcessor run
  sp_process_user_calls, sp_stream_raised, sp_final, sp_error,
  \* streaming_simulation.py: StreamingSimulation
  sim_pc, sim_now, sim_idx, sim_data, sim_current_time,
  fast_strategy_result, full_strategy_result,
  \* history of the simulation: when each field was set
  sim_applied,
  \* conceptual_fast_transition_demo.py: simulate_streaming_with_states
  cf_pc, cf_idx, cf_now, cf_elapsed, cf_has_triggered_fast_transition,
  cf_next_job_task, cf_task_wake,
  \* history of the conceptual demo: the updates that triggered, and the
  \* updates processed while the job task was running
  cf_triggers, cf_during,
  \* complex_employee_demo.py: complex_employee_streaming_demo
  ce_pc, ce_update_count, ce_has_triggered_fast_transition,
  ce_critical_ready, ce_critical_values, ce_onboarding,
  \* history of the employee demo: the first partial with every critical
  \* field usable, and the partials at which a task was created
  ce_first_eligible, ce_created

tsVars == <<ts_pc, ts_mode, ts_required_fields, ts_handlers, ts_notified,
            ts_partial_count, ts_now, ts_state,
            st_total_time, st_partial_count, st_required_ready_time,
            st_all_complete_time, st_stats,
            ts_n_required_ready, ts_n_all_complete, ts_calls, ts_sat,
            ts_dropped, ts_ever, ts_error, ts_produced, ts_yielded>>

chkVars == <<chk_required_fields, chk_required_ready_triggered,
             chk_all_complete_triggered>>

chkHist == <<chk_last, chk_n_required_true, chk_n_all_true>>

psVars == <<tm_events, ps_pc, ps_handlers, ps_partial_count, ps_now,
            ps_elapsed, ps_field_states, ps_summary, ps_streams,
            ps_log, ps_sat, ps_dropped, ps_ever, ps_final, ps_error,
            ps_prev_all_complete>>

ftVars == <<ft_pc, ft_has_triggered_fast_transition, ft_stream_start_time,
            ft_required_fields_ready_time, ft_all_fields_ready_time,
            ft_next_job_start_time, ft_next_job_complete_time,
            ft_update_count, ft_callback, ft_now, ft_jobs, ft_streams,
            ft_sat, ft_error>>

prVars == <<pr_kind, pr_required_fields, pr_step, pr_a, pr_b>>

mnVars == <<mn_required_fields, mn_run>>

upVars == <<up_state, up_on_ready_for_next_job, sp_pc,
            sp_next_job_triggered, sp_welcome_message, sp_tasks,
            sp_running, sp_partial_count, sp_calls, sp_process_user_calls,
            sp_stream_raised, sp_final, sp_error>>

simVars == <<sim_pc, sim_now, sim_idx, sim_data, sim_current_time,
             fast_strategy_result, full_strategy_result, sim_applied>>

cfVars == <<cf_pc, cf_idx, cf_now, cf_elapsed,
            cf_has_triggered_fast_transition, cf_next_job_task,
            cf_task_wake, cf_triggers, cf_during>>

ceVars == <<ce_pc, ce_update_count, ce_has_triggered_fast_transition,
            ce_critical_ready, ce_critical_values, ce_onboarding,
            ce_first_eligible, ce_created>>

demoVars == <<cfVars, ceVars>>

vars == <<tsVars, chkVars, chkHist, psVars, ftVars, prVars, fn_call,
          mnVars, upVars, simVars, demoVars>>

\* What a run of one entry point leaves alone.
notTS == <<chkVars, chkHist, psVars, ftVars, prVars, fn_call, mnVars,
           upVars, simVars,
           demoVars>>

notPS == <<tsVars, chkHist, ftVars, prVars, fn_call, mnVars, upVars, simVars,
           demoVars>>

notChk == <<tsVars, psVars, ftVars, prVars, fn_call, mnVars, upVars, simVars,
           demoVars>>

notFT == <<tsVars, chkVars, chkHist, psVars, prVars, fn_call, mnVars,
           upVars, simVars,
           demoVars>>

notPair == <<tsVars, chkVars, chkHist, psVars, ftVars, fn_call,
             mnVars, upVars, simVars,
           demoVars>>

notFn == <<tsVars, chkVars, chkHist, psVars, ftVars, prVars, mnVars,
           upVars, simVars,
           demoVars>>

notUP == <<tsVars, chkVars, chkHist, psVars, ftVars, prVars, fn_call,
          mnVars, simVars,
           demoVars>>

notSim == <<tsVars, chkVars, chkHist, psVars, ftVars, prVars, fn_call,
            mnVars, upVars,
           demoVars>>

notMono == <<tsVars, chkVars, chkHist, psVars, ftVars, prVars,
             fn_call, upVars, simVars,
           demoVars>>

notCF == <<tsVars, chkVars, chkHist, psVars, ftVars, prVars, fn_call,
          mnVars, upVars, simVars, ceVars>>

notCE == <<tsVars, chkVars, chkHist, psVars, ftVars, prVars, fn_call,
          mnVars, upVars, simVars, cfVars>>

\* ------------------------------------------------- baml_streaming.py
\* extract_current_fields: the dict of the attributes that are there and
\* not None (its key set; the values are opaque to the tracker).
extract_current_fields(partial) ==
  {name \in AllFields : partial[name] = "value"}

\* is_new_event without the membership test.
is_new_event_unlatched(notified, event_type) == TRUE

\* notification_tracker.is_new_event: the returned value.
is_new_event(notified, event_type) == event_type \notin notified

\* notification_tracker.is_new_event: the set after the call.
notified_after(notified, event_type) == notified \cup {event_type}

\* The required test refusing an empty set of required fields.
RequiredSubset_nonempty(required_fields, current_fields) ==
  required_fields # {} /\ required_fields \subseteq current_fields

\* The two conditions of track_stream, before the "and" with the tracker.
RequiredSubset(required_fields, current_fields) ==
  required_fields \subseteq current_fields

\* The all-complete comparison with the fields that happen to be there.
AllKeysEqual_present(current_fields) == current_fields \subseteq AllFields

AllKeysEqual(current_fields) == current_fields = AllFields

\* Exact fractions for the results of "/" and "*": a / b and q * k.
\* (The rounding of the floating-point operations is left out.)
RatDiv(a, b) == [num |-> a, den |-> b]

RatTimes(q, k) == [num |-> q.num * k, den |-> q.den]

\* The share of the total time that had elapsed, instead of the savings.
StatsTimeSavingsPercent_elapsed_share(total_time, required_ready_time) ==
  IF required_ready_time = None THEN [kind |-> "None"]
  ELSE IF total_time = 0 THEN [kind |-> "ZeroDivisionError"]
  ELSE [kind  |-> "value",
        value |-> RatTimes(RatDiv(CHOOSE t \in required_ready_time : TRUE,
                                  total_time), 100)]

\* StreamStats.time_savings_percent:
\* (self.total_time - self.required_ready_time) / self.total_time * 100
StatsTimeSavingsPercent(total_time, required_ready_time) ==
  IF required_ready_time = None THEN [kind |-> "None"]
  ELSE IF total_time = 0 THEN [kind |-> "ZeroDivisionError"]
  ELSE [kind  |-> "value",
        value |-> RatTimes(
                    RatDiv(total_time
                             - (CHOOSE t \in required_ready_time : TRUE),
                           total_time),
                    100)]

\* The snapshot counter after one more partial, counting it twice.
next_partial_count_twice(partial_count) == partial_count + 2

\* partial_count += 1 (baml_streaming.py line 125, baml_streaming_helpers.py
\* line 294).
next_partial_count(partial_count) == partial_count + 1

NoState == [fields |-> {}, required_ready |-> FALSE, all_complete |-> FALSE,
            elapsed |-> 0, partial_count |-> 0]

\* The callbacks track_stream itself was given: simple_track passes none.
TrackCallbacks ==
  IF ts_mode = "track_stream" THEN ts_handlers ELSE {}

\* Conditions a partial's fields satisfy, without the latch (history
\* bookkeeping): every required field present, every schema field present.
SatisfiedBy(required_fields, current_fields) ==
  {c \in {"required_ready"} : \A f \in required_fields : f \in current_fields}
  \cup {c \in {"all_complete"} : \A f \in AllFields : f \in current_fields}

\* Lines 137-156 for the state built so far: the all-complete check, then
\* either the await of on_all_ready or the yield.
TS_AllCheck(st, notified) ==
  LET sat == AllKeysEqual(st.fields)
      triggered == sat /\ is_new_event(notified, "all_complete")
  IN [state    |-> [st EXCEPT !.all_complete = triggered],
      notified |-> IF sat THEN notified_after(notified, "all_complete")
                   ELSE notified,
      await    |-> triggered /\ "on_all_ready" \in TrackCallbacks]

TS_Yield(st) ==
  /\ ts_pc' = "yielded"
  /\ ts_state' = st
  /\ ts_yielded' = ts_yielded + 1
  /\ ts_n_required_ready' =
       ts_n_required_ready + (IF st.required_ready THEN 1 ELSE 0)
  /\ ts_n_all_complete' =
       ts_n_all_complete + (IF st.all_complete THEN 1 ELSE 0)

TS_AllCheckThenYield(st, notified, calls) ==
  LET r == TS_AllCheck(st, notified)
  IN /\ ts_notified' = r.notified
     /\ IF r.await
        THEN /\ ts_pc' = "await_all"
             /\ ts_state' = r.state
             /\ ts_calls' = Append(calls, <<"on_all_ready", st.partial_count>>)
             /\ UNCHANGED <<ts_n_required_ready, ts_n_all_complete,
                            ts_yielded>>
        ELSE /\ TS_Yield(r.state)
             /\ ts_calls' = calls

\* async for partial in stream: one partial arrives (lines 124-135).
TS_NextPartial(partial, dt) ==
  /\ ts_pc = "loop"
  /\ ts_partial_count < MaxPartials
  /\ LET current_fields == extract_current_fields(partial)
         sat == RequiredSubset(ts_required_fields, current_fields)
         required_ready == sat /\ is_new_event(ts_notified, "required_ready")
         notified == IF sat THEN notified_after(ts_notified, "required_ready")
                     ELSE ts_notified
         st == [fields |-> current_fields, required_ready |-> required_ready,
                all_complete |-> FALSE, elapsed |-> ts_now + dt,
                partial_count |-> next_partial_count(ts_partial_count)]
         now_sat == SatisfiedBy(ts_required_fields, current_fields)
     IN /\ ts_partial_count' = next_partial_count(ts_partial_count)
        /\ ts_now' = ts_now + dt
        /\ ts_dropped' = ts_dropped \cup (ts_sat \ now_sat)
        /\ ts_sat' = ts_sat \cup now_sat
        /\ ts_ever' = ts_ever \cup current_fields
        /\ IF required_ready /\ "on_required_ready" \in TrackCallbacks
           THEN /\ ts_pc' = "await_required"
                /\ ts_state' = st
                /\ ts_notified' = notified
                /\ ts_calls' = Append(ts_calls,
                                      <<"on_required_ready", st.partial_count>>)
                /\ UNCHANGED <<ts_n_required_ready, ts_n_all_complete,
                               ts_yielded>>
           ELSE TS_AllCheckThenYield(st, notified, ts_calls)
  /\ UNCHANGED <<ts_mode, ts_required_fields, ts_handlers, st_total_time,
                 st_partial_count, st_required_ready_time,
                 st_all_complete_time, st_stats, ts_error>>
  /\ ts_produced' = ts_produced + 1
  /\ UNCHANGED notTS

TS_TakePartial == \E partial \in StreamPartials, dt \in Ticks(ts_now) :
                    TS_NextPartial(partial, dt)

\* await on_required_ready(current_fields) returns (line 135).
TS_RequiredHandlerReturns ==
  /\ ts_pc = "await_required"
  /\ TS_AllCheckThenYield(ts_state, ts_notified, ts_calls)
  /\ UNCHANGED <<ts_mode, ts_required_fields, ts_handlers, ts_partial_count,
                 ts_now, st_total_time, st_partial_count,
                 st_required_ready_time, st_all_complete_time, st_stats,
                 ts_sat, ts_dropped, ts_ever, ts_error>>
  /\ UNCHANGED ts_produced
  /\ UNCHANGED notTS

\* await on_all_ready(current_fields) returns (line 142).
TS_AllHandlerReturns ==
  /\ ts_pc = "await_all"
  /\ TS_Yield(ts_state)
  /\ UNCHANGED <<ts_mode, ts_required_fields, ts_handlers, ts_notified,
                 ts_partial_count, ts_now, st_total_time, st_partial_count,
                 st_required_ready_time, st_all_complete_time, st_stats,
                 ts_calls, ts_sat, ts_dropped, ts_ever, ts_error>>
  /\ UNCHANGED ts_produced
  /\ UNCHANGED notTS

\* An awaited callback raises: nothing catches it, the generator and its
\* consumer end with the exception.
TS_HandlerRaises ==
  /\ ts_pc \in {"await_required", "await_all", "st_await_required",
                "st_await_all"}
  /\ ts_pc' = "error"
  /\ ts_error' = "handler"
  /\ UNCHANGED <<ts_mode, ts_required_fields, ts_handlers, ts_notified,
                 ts_partial_count, ts_now, ts_state, st_total_time,
                 st_partial_count, st_required_ready_time,
                 st_all_complete_time, st_stats, ts_n_required_ready,
                 ts_n_all_complete, ts_calls, ts_sat, ts_dropped, ts_ever>>
  /\ UNCHANGED <<ts_produced, ts_yielded>>
  /\ UNCHANGED notTS

\* The upstream stream raises instead of producing a partial.
TS_StreamRaises ==
  /\ ts_pc = "loop"
  /\ ts_pc' = "error"
  /\ ts_error' = "stream"
  /\ UNCHANGED <<ts_mode, ts_required_fields, ts_handlers, ts_notified,
                 ts_partial_count, ts_now, ts_state, st_total_time,
                 st_partial_count, st_required_ready_time,
                 st_all_complete_time, st_stats, ts_n_required_ready,
                 ts_n_all_complete, ts_calls, ts_sat, ts_dropped, ts_ever>>
  /\ UNCHANGED <<ts_produced, ts_yielded>>
  /\ UNCHANGED notTS

\* The consumer of track_stream (a plain "async for state in ...") asks for
\* the next state.
TS_Resume ==
  /\ ts_pc = "yielded"
  /\ ts_mode = "track_stream"
  /\ ts_pc' = "loop"
  /\ ts_state' = NoState
  /\ UNCHANGED <<ts_mode, ts_required_fields, ts_handlers, ts_notified,
                 ts_partial_count, ts_now, st_total_time,
                 st_partial_count, st_required_ready_time,
                 st_all_complete_time, st_stats, ts_n_required_ready,
                 ts_n_all_complete, ts_calls, ts_sat, ts_dropped, ts_ever,
                 ts_error>>
  /\ UNCHANGED <<ts_produced, ts_yielded>>
  /\ UNCHANGED notTS

\* simple_track, lines 213-216: the all_complete branch of the loop body.
ST_AllBranch(st, calls) ==
  /\ st_all_complete_time' =
       IF st.all_complete THEN Some(st.elapsed) ELSE st_all_complete_time
  /\ IF st.all_complete /\ "on_all_ready" \in ts_handlers
     THEN /\ ts_pc' = "st_await_all"
          /\ ts_calls' = Append(calls, <<"on_all_ready", st.partial_count>>)
          /\ ts_state' = st
     ELSE /\ ts_pc' = "loop"
          /\ ts_calls' = calls
          /\ ts_state' = NoState

\* simple_track, lines 204-216: the loop body for one yielded state.
ST_Consume ==
  /\ ts_pc = "yielded"
  /\ ts_mode = "simple_track"
  /\ st_partial_count' = ts_state.partial_count
  /\ st_total_time' = ts_state.elapsed
  /\ st_required_ready_time' =
       IF ts_state.required_ready THEN Some(ts_state.elapsed)
       ELSE st_required_ready_time
  /\ IF ts_state.required_ready /\ "on_required_ready" \in ts_handlers
     THEN /\ ts_pc' = "st_await_required"
          /\ ts_calls' = Append(ts_calls, <<"on_required_ready",
                                            ts_state.partial_count>>)
          /\ UNCHANGED <<st_all_complete_time, ts_state>>
     ELSE ST_AllBranch(ts_state, ts_calls)
  /\ UNCHANGED <<ts_mode, ts_required_fields, ts_handlers, ts_notified,
                 ts_partial_count, ts_now, st_stats,
                 ts_n_required_ready, ts_n_all_complete, ts_sat, ts_dropped,
                 ts_ever, ts_error>>
  /\ UNCHANGED <<ts_produced, ts_yielded>>
  /\ UNCHANGED notTS

\* simple_track: await on_required_ready(state.fields) returns (line 211).
ST_RequiredHandlerReturns ==
  /\ ts_pc = "st_await_required"
  /\ ST_AllBranch(ts_state, ts_calls)
  /\ UNCHANGED <<ts_mode, ts_required_fields, ts_handlers, ts_notified,
                 ts_partial_count, ts_now, st_total_time,
                 st_partial_count, st_required_ready_time, st_stats,
                 ts_n_required_ready, ts_n_all_complete, ts_sat, ts_dropped,
                 ts_ever, ts_error>>
  /\ UNCHANGED <<ts_produced, ts_yielded>>
  /\ UNCHANGED notTS

\* simple_track: await on_all_ready(state.fields) returns (line 216).
ST_AllHandlerReturns ==
  /\ ts_pc = "st_await_all"
  /\ ts_pc' = "loop"
  /\ ts_state' = NoState
  /\ UNCHANGED <<ts_mode, ts_required_fields, ts_handlers, ts_notified,
                 ts_partial_count, ts_now, st_total_time,
                 st_partial_count, st_required_ready_time,
                 st_all_complete_time, st_stats, ts_n_required_ready,
                 ts_n_all_complete, ts_calls, ts_sat, ts_dropped, ts_ever,
                 ts_error>>
  /\ UNCHANGED <<ts_produced, ts_yielded>>
  /\ UNCHANGED notTS

\* The stream is exhausted.  track_stream ends; simple_track builds its
\* StreamStats and evaluates time_savings_percent for the display
\* (lines 219-232).
TS_StreamEnds ==
  /\ ts_pc = "loop"
  /\ IF ts_mode = "track_stream"
     THEN /\ ts_pc' = "done"
          /\ UNCHANGED <<st_stats, ts_error>>
     ELSE LET stats == [total_time |-> st_total_time,
                        partial_count |-> st_partial_count,
                        required_ready_time |-> st_required_ready_time,
                        all_complete_time |-> st_all_complete_time]
              pct == StatsTimeSavingsPercent(st_total_time,
                                             st_required_ready_time)
          IN IF pct.kind = "ZeroDivisionError"
             THEN /\ ts_pc' = "error"
                  /\ ts_error' = "ZeroDivisionError"
                  /\ UNCHANGED st_stats
             ELSE /\ ts_pc' = "done"
                  /\ st_stats' = Some(stats)
                  /\ UNCHANGED ts_error
  /\ UNCHANGED <<ts_mode, ts_required_fields, ts_handlers, ts_notified,
                 ts_partial_count, ts_now, ts_state, st_total_time,
                 st_partial_count, st_required_ready_time,
                 st_all_complete_time, ts_n_required_ready,
                 ts_n_all_complete, ts_calls, ts_sat, ts_dropped, ts_ever>>
  /\ UNCHANGED <<ts_produced, ts_yielded>>
  /\ UNCHANGED notTS

\* State when the loop of track_stream is about to start (lines 115-121)
\* and simple_track has set its locals (lines 199-202).
InitTS ==
  /\ ts_pc = "loop"
  /\ ts_mode \in {"track_stream", "simple_track"}
  /\ ts_required_fields \in RequiredConfigs
  /\ ts_handlers \in SUBSET {"on_required_ready", "on_all_ready"}
  /\ ts_notified = {}
  /\ ts_partial_count = 0
  /\ ts_now = 0
  /\ ts_state = NoState
  /\ st_total_time = 0
  /\ st_partial_count = 0
  /\ st_required_ready_time = None
  /\ st_all_complete_time = None
  /\ st_stats = None
  /\ ts_n_required_ready = 0
  /\ ts_n_all_complete = 0
  /\ ts_calls = <<>>
  /\ ts_sat = {}
  /\ ts_dropped = {}
  /\ ts_ever = {}
  /\ ts_error = "none"
  /\ ts_produced = 0
  /\ ts_yielded = 0

IdleTS ==
  /\ ts_pc = "idle"
  /\ ts_mode = "track_stream"
  /\ ts_required_fields = {}
  /\ ts_handlers = {}
  /\ ts_notified = {}
  /\ ts_partial_count = 0
  /\ ts_now = 0
  /\ ts_state = NoState
  /\ st_total_time = 0
  /\ st_partial_count = 0
  /\ st_required_ready_time = None
  /\ st_all_complete_time = None
  /\ st_stats = None
  /\ ts_n_required_ready = 0
  /\ ts_n_all_complete = 0
  /\ ts_calls = <<>>
  /\ ts_sat = {}
  /\ ts_dropped = {}
  /\ ts_ever = {}
  /\ ts_error = "none"
  /\ ts_produced = 0
  /\ ts_yielded = 0

NextTS ==
  \/ TS_TakePartial
  \/ TS_RequiredHandlerReturns
  \/ TS_AllHandlerReturns
  \/ TS_HandlerRaises
  \/ TS_StreamRaises
  \/ TS_Resume
  \/ ST_Consume
  \/ ST_RequiredHandlerReturns
  \/ ST_AllHandlerReturns
  \/ TS_StreamEnds

\* --------------------------------------------- baml_streaming_helpers.py
\* FieldStatus: the enum's two values.
NONE == "none"

COMPLETE == "Complete"

FieldStatuses == {NONE, COMPLETE}

\* The field-state maps a caller can hand to a RequiredFieldsChecker: one
\* status per key, for any set of keys.
FieldStateMaps == UNION {[D -> FieldStatuses] : D \in SUBSET AllFields}

\* StatusOf with a missing entry read as COMPLETE.
StatusOf_missing_complete(field_states, field_name) ==
  IF field_name \in DOMAIN field_states THEN field_states[field_name]
  ELSE COMPLETE

\* field_states.get(field_name, FieldState(..., status=NONE, ...)).status
StatusOf(field_states, field_name) ==
  IF field_name \in DOMAIN field_states THEN field_states[field_name]
  ELSE NONE

\* check_required_ready without the early return on the flag.
check_required_ready_unlatched(required_fields, triggered, field_states) ==
  LET required_ready ==
        \A field_name \in required_fields :
          StatusOf(field_states, field_name) = COMPLETE
  IN [result |-> required_ready, triggered |-> required_ready]

\* check_required_ready reading every entry of the map, not the required
\* names only.
check_required_ready_all_entries(required_fields, triggered, field_states) ==
  IF triggered THEN [result |-> FALSE, triggered |-> TRUE]
  ELSE LET required_ready ==
             \A field_name \in DOMAIN field_states :
               field_states[field_name] = COMPLETE
       IN [result |-> required_ready, triggered |-> required_ready]

\* check_required_ready asking for the required fields and no other.
check_required_ready_only(required_fields, triggered, field_states) ==
  IF triggered THEN [result |-> FALSE, triggered |-> TRUE]
  ELSE LET required_ready ==
             \A field_name \in DOMAIN field_states :
               field_name \in required_fields
                 <=> field_states[field_name] = COMPLETE
       IN [result |-> required_ready, triggered |-> required_ready]

\* RequiredFieldsChecker.check_required_ready: the returned value and the
\* flag after the call.
check_required_ready(required_fields, triggered, field_states) ==
  IF triggered THEN [result |-> FALSE, triggered |-> TRUE]
  ELSE LET required_ready ==
             \A field_name \in required_fields :
               StatusOf(field_states, field_name) = COMPLETE
       IN [result |-> required_ready, triggered |-> required_ready]

\* check_all_complete satisfied by one COMPLETE field.
check_all_complete_some_field(triggered, field_states) ==
  IF triggered THEN [result |-> FALSE, triggered |-> TRUE]
  ELSE LET some_complete ==
             \E field_name \in DOMAIN field_states :
               field_states[field_name] = COMPLETE
       IN [result |-> some_complete, triggered |-> some_complete]

\* RequiredFieldsChecker.check_all_complete: the returned value and the
\* flag after the call.
check_all_complete(triggered, field_states) ==
  IF triggered THEN [result |-> FALSE, triggered |-> TRUE]
  ELSE LET all_complete ==
             \A field_name \in DOMAIN field_states :
               field_states[field_name] = COMPLETE
       IN [result |-> all_complete, triggered |-> all_complete]

\* getattr(partial, field_name, None): None for a missing attribute, no
\* AttributeError.
getattr_default(partial, field_name) ==
  IF partial[field_name] = "missing" THEN "None" ELSE partial[field_name]

\* _extract_all_field_states with entries for the attributes the partial
\* exposes only.
extract_all_field_states_exposed(partial) ==
  [field_name \in {f \in AllFields : partial[f] # "missing"} |->
     IF getattr_default(partial, field_name) = "None" THEN NONE
     ELSE COMPLETE]

\* BAMLStreamProcessor._extract_all_field_states: one FieldState per name
\* of all_fields (its status; the value and the timestamp are not read by
\* the checks).
extract_all_field_states(partial) ==
  [field_name \in AllFields |->
     IF getattr_default(partial, field_name) = "None" THEN NONE
     ELSE COMPLETE]

\* StreamTimer.mark_event: the events dict after the call.
mark_event(events, event_name, elapsed) ==
  [e \in (DOMAIN events) \cup {event_name} |->
     IF e = event_name THEN elapsed ELSE events[e]]

\* get_event_time finding no event.
get_event_time_unset(events, event_name) == None

\* StreamTimer.get_event_time
get_event_time(events, event_name) ==
  IF event_name \in DOMAIN events THEN Some(events[event_name]) ELSE None

NoEvents == [e \in {} |-> 0]

\* PerformanceSummary.time_savings_percent:
\* (self.total_time - self.required_ready_time) / self.total_time * 100
SummaryTimeSavingsPercent(total_time, required_ready_time) ==
  IF required_ready_time = None THEN [kind |-> "None"]
  ELSE IF total_time = 0 THEN [kind |-> "ZeroDivisionError"]
  ELSE [kind  |-> "value",
        value |-> RatTimes(
                    RatDiv(total_time
                             - (CHOOSE t \in required_ready_time : TRUE),
                           total_time),
                    100)]

Bump(n) == IF n < 2 THEN n + 1 ELSE n

\* A caller invokes checker.check_required_ready(field_states).
Chk_CheckRequiredReady(field_states) ==
  /\ ps_pc = "idle" /\ ts_pc = "idle"
  /\ LET r == check_required_ready(chk_required_fields,
                                   chk_required_ready_triggered, field_states)
     IN /\ chk_required_ready_triggered' = r.triggered
        /\ chk_last' = [op |-> "check_required_ready", map |-> field_states,
                        result |-> r.result,
                        before |-> chk_required_ready_triggered]
        /\ chk_n_required_true' =
             IF r.result THEN Bump(chk_n_required_true)
             ELSE chk_n_required_true
  /\ UNCHANGED <<chk_required_fields, chk_all_complete_triggered,
                 chk_n_all_true>>
  /\ UNCHANGED notChk

\* A caller invokes checker.check_all_complete(field_states).
Chk_CheckAllComplete(field_states) ==
  /\ ps_pc = "idle" /\ ts_pc = "idle"
  /\ LET r == check_all_complete(chk_all_complete_triggered, field_states)
     IN /\ chk_all_complete_triggered' = r.triggered
        /\ chk_last' = [op |-> "check_all_complete", map |-> field_states,
                        result |-> r.result,
                        before |-> chk_all_complete_triggered]
        /\ chk_n_all_true' =
             IF r.result THEN Bump(chk_n_all_true) ELSE chk_n_all_true
  /\ UNCHANGED <<chk_required_fields, chk_required_ready_triggered,
                 chk_n_required_true>>
  /\ UNCHANGED notChk

\* RequiredFieldsChecker.reset: the two flags after the call.
checker_reset == [required_ready_triggered |-> FALSE,
                  all_complete_triggered |-> FALSE]

\* A caller invokes checker.reset().
Chk_Reset ==
  /\ ps_pc = "idle" /\ ts_pc = "idle"
  /\ chk_required_ready_triggered' = checker_reset.required_ready_triggered
  /\ chk_all_complete_triggered' = checker_reset.all_complete_triggered
  /\ chk_last' = [op |-> "reset", map |-> NoEvents, result |-> FALSE,
                  before |-> FALSE]
  /\ chk_n_required_true' = 0
  /\ chk_n_all_true' = 0
  /\ UNCHANGED chk_required_fields
  /\ UNCHANGED notChk

NoCall == [op |-> "none", map |-> NoEvents, result |-> FALSE,
           before |-> FALSE]

\* The FastTransitionProcessor of a run that does not use one.
IdleFT ==
  /\ ft_pc = "idle"
  /\ ft_has_triggered_fast_transition = FALSE
  /\ ft_stream_start_time = None
  /\ ft_required_fields_ready_time = None
  /\ ft_all_fields_ready_time = None
  /\ ft_next_job_start_time = None
  /\ ft_next_job_complete_time = None
  /\ ft_update_count = 0
  /\ ft_callback = FALSE
  /\ ft_now = 1
  /\ ft_jobs = <<>>
  /\ ft_streams = 0
  /\ ft_sat = {}
  /\ ft_error = "none"

\* No side-by-side run.
NoRun == [triggered |-> FALSE, notified |-> {}, result |-> FALSE,
          fired_at |-> 0, input |-> {}]

IdlePair ==
  /\ pr_kind = "none"
  /\ pr_required_fields = {}
  /\ pr_step = 0
  /\ pr_a = NoRun
  /\ pr_b = NoRun

\* No function called.
IdleFn == fn_call = [op |-> "none"]

\* A checker that has been given no map.
NoMaps == [step |-> 0, complete |-> {}, regressed |-> FALSE,
           holds |-> {}, held |-> {}, first |-> << >>,
           required_ready_triggered |-> FALSE,
           all_complete_triggered |-> FALSE, reports |-> << >>]

IdleMono ==
  /\ mn_required_fields = {}
  /\ mn_run = NoMaps

\* --------------------------------------------- src/streaming_demo.py
\* The four data fields of UserProfileState.
UP_Fields == {"name", "email", "bio", "age"}

\* The attribute update_field sets next to the value: f"{field_name}_complete".
CompleteAttr(field_name) ==
  CASE field_name = "name" -> "name_complete"
    [] field_name = "email" -> "email_complete"
    [] field_name = "bio" -> "bio_complete"
    [] field_name = "age" -> "age_complete"

\* What a field of the state can hold: None, a falsy value ("" or 0), or
\* another value (a non-empty string, a non-zero number, a StreamState).
UP_ValueKinds == {"None", "empty", "value"}

\* UserProfileState(): the dataclass defaults.
UserProfileState ==
  [name |-> "None", email |-> "None", bio |-> "None", age |-> "None",
   name_complete |-> FALSE, email_complete |-> FALSE,
   bio_complete |-> FALSE, age_complete |-> FALSE]

\* The two completion flags alone.
has_required_fields_flags_only(state) ==
  state.name_complete /\ state.email_complete

\* UserProfileState.has_required_fields
has_required_fields(state) ==
  /\ state.name_complete
  /\ state.email_complete
  /\ state.name # "None"
  /\ state.email # "None"

\* UserProfileState.is_complete
is_complete(state) ==
  /\ state.name_complete
  /\ state.email_complete
  /\ state.bio_complete
  /\ state.age_complete

\* UserProfileState.update_field: the two setattr calls.
update_field(state, field_name, value, is_complete_arg) ==
  [state EXCEPT ![field_name] = value,
                ![CompleteAttr(field_name)] = is_complete_arg]

\* UserProfileState.update_field: whether the call ends by scheduling the
\* on_ready_for_next_job callback as a task.
schedules_ready_task(state, on_ready_for_next_job) ==
  has_required_fields(state) /\ on_ready_for_next_job

\* A UserProfileState nobody has touched and no StreamingProcessor.
IdleUP ==
  /\ up_state = UserProfileState
  /\ up_on_ready_for_next_job = FALSE
  /\ sp_pc = "idle"
  /\ sp_next_job_triggered = FALSE
  /\ sp_welcome_message = None
  /\ sp_tasks = 0
  /\ sp_running = 0
  /\ sp_partial_count = 0
  /\ sp_calls = 0
  /\ sp_process_user_calls = 0
  /\ sp_stream_raised = FALSE
  /\ sp_final = None
  /\ sp_error = "none"

\* How much longer than asked an asyncio.sleep can take, in tenths of a
\* second.
Overruns == 0..MaxOverrun

\* ------------------------------------------- streaming_simulation.py
\* StreamingData(): no field has arrived.
StreamingData == [name |-> "None", email |-> "None", bio |-> "None",
                  age |-> "None"]

\* No field applied yet.
NothingApplied == [f \in UP_Fields |-> None]

\* A StreamingSimulation that is not run.
IdleSim ==
  /\ sim_pc = "idle"
  /\ sim_now = 0
  /\ sim_idx = 1
  /\ sim_data = StreamingData
  /\ sim_current_time = 0
  /\ fast_strategy_result = None
  /\ full_strategy_result = None
  /\ sim_applied = NothingApplied

\* A ConceptualFastTransitionDemo that is not run.
IdleCF ==
  /\ cf_pc = "idle"
  /\ cf_idx = 1
  /\ cf_now = 0
  /\ cf_elapsed = 0
  /\ cf_has_triggered_fast_transition = FALSE
  /\ cf_next_job_task = "None"
  /\ cf_task_wake = 0
  /\ cf_triggers = <<>>
  /\ cf_during = {}

\* complex_employee_streaming_demo not run.
IdleCE ==
  /\ ce_pc = "idle"
  /\ ce_update_count = 0
  /\ ce_has_triggered_fast_transition = FALSE
  /\ ce_critical_ready = FALSE
  /\ ce_critical_values = {}
  /\ ce_onboarding = "none"
  /\ ce_first_eligible = 0
  /\ ce_created = <<>>

IdleDemos == IdleCF /\ IdleCE

\* What a run of the entry points leaves at rest.
IdleOthers ==
  IdlePair /\ IdleFn /\ IdleMono /\ IdleUP /\ IdleSim /\ IdleDemos

\* RequiredFieldsChecker.__init__
InitChecker ==
  /\ chk_required_fields \in RequiredConfigs
  /\ chk_required_ready_triggered = FALSE
  /\ chk_all_complete_triggered = FALSE

IdleChkHist ==
  /\ chk_last = NoCall
  /\ chk_n_required_true = 0
  /\ chk_n_all_true = 0

IdlePS ==
  /\ tm_events = NoEvents
  /\ ps_pc = "idle"
  /\ ps_handlers = {}
  /\ ps_partial_count = 0
  /\ ps_now = 0
  /\ ps_elapsed = 0
  /\ ps_field_states = NoEvents
  /\ ps_summary = None
  /\ ps_streams = 0
  /\ ps_log = <<>>
  /\ ps_sat = {}
  /\ ps_dropped = {}
  /\ ps_ever = {}
  /\ ps_final = None
  /\ ps_error = "none"
  /\ ps_prev_all_complete = FALSE

InitChk ==
  IdleTS /\ InitChecker /\ IdleChkHist /\ IdlePS /\ IdleFT /\ IdleOthers

NextChk ==
  \/ \E field_states \in FieldStateMaps : Chk_CheckRequiredReady(field_states)
  \/ \E field_states \in FieldStateMaps : Chk_CheckAllComplete(field_states)
  \/ Chk_Reset

SpecChk == InitChk /\ [][NextChk]_vars

\* The two conditions as predicates over the configured fields, without
\* the latch (history bookkeeping).
RequiredComplete(required_fields, field_states) ==
  \A f \in required_fields : StatusOf(field_states, f) = COMPLETE

AllConfiguredComplete(field_states) ==
  \A f \in AllFields : StatusOf(field_states, f) = COMPLETE

PS_SatisfiedBy(field_states) ==
  {c \in {"required_ready"} :
     RequiredComplete(chk_required_fields, field_states)}
  \cup {c \in {"all_complete"} : AllConfiguredComplete(field_states)}

\* process_stream without the two reset calls of lines 281-282.
PS_Start_without_reset(handlers) ==
  /\ ps_pc \in {"ready", "returned", "error"}
  /\ ps_streams < MaxCalls
  /\ ps_streams' = ps_streams + 1
  /\ ps_pc' = "loop"
  /\ ps_handlers' = handlers
  /\ ps_partial_count' = 0
  /\ ps_now' = 0
  /\ ps_elapsed' = 0
  /\ ps_field_states' = NoEvents
  /\ ps_summary' = None
  /\ ps_log' = <<>>
  /\ ps_sat' = {}
  /\ ps_dropped' = {}
  /\ ps_ever' = {}
  /\ ps_final' = None
  /\ ps_error' = "none"
  /\ ps_prev_all_complete' = ("all_complete" \in DOMAIN tm_events)
  /\ UNCHANGED <<chkVars, tm_events>>
  /\ UNCHANGED notPS

\* process_stream is called on a constructed processor (lines 278-289):
\* the checker and the timer are reset.
PS_Start(handlers) ==
  /\ ps_pc \in {"ready", "returned", "error"}
  /\ ps_streams < MaxCalls
  /\ ps_streams' = ps_streams + 1
  /\ ps_pc' = "loop"
  /\ ps_handlers' = handlers
  /\ ps_partial_count' = 0
  /\ chk_required_ready_triggered' = checker_reset.required_ready_triggered
  /\ chk_all_complete_triggered' = checker_reset.all_complete_triggered
  /\ tm_events' = NoEvents
  /\ ps_now' = 0
  /\ ps_elapsed' = 0
  /\ ps_field_states' = NoEvents
  /\ ps_summary' = None
  /\ ps_log' = <<>>
  /\ ps_sat' = {}
  /\ ps_dropped' = {}
  /\ ps_ever' = {}
  /\ ps_final' = None
  /\ ps_error' = "none"
  /\ ps_prev_all_complete' = ("all_complete" \in DOMAIN tm_events)
  /\ UNCHANGED chk_required_fields
  /\ UNCHANGED notPS

\* Lines 308-317 for the current partial: the all-complete check, its
\* event and its handler.
PS_AllCheck(field_states, now, dt, log, events) ==
  LET r == check_all_complete(chk_all_complete_triggered, field_states)
  IN /\ chk_all_complete_triggered' = r.triggered
     /\ r.result \/ dt = 0
     /\ IF r.result
        THEN /\ tm_events' = mark_event(events, "all_complete", now + dt)
             /\ ps_now' = now + dt
             /\ IF "on_all_complete" \in ps_handlers
                THEN /\ ps_pc' = "await_all"
                     /\ ps_log' = log \o <<<<"mark", "all_complete">>,
                                           <<"call", "on_all_complete">>>>
                     /\ ps_field_states' = field_states
                ELSE /\ ps_pc' = "loop"
                     /\ ps_log' = Append(log, <<"mark", "all_complete">>)
                     /\ ps_field_states' = NoEvents
        ELSE /\ tm_events' = events
             /\ ps_now' = now
             /\ ps_pc' = "loop"
             /\ ps_log' = log
             /\ ps_field_states' = NoEvents

\* async for partial in stream: one partial arrives (lines 293-306).
PS_NextPartial(partial, dt1, dt2, dt3) ==
  /\ ps_pc = "loop"
  /\ ps_partial_count < MaxPartials
  /\ LET elapsed == ps_now + dt1
         field_states == extract_all_field_states(partial)
         r == check_required_ready(chk_required_fields,
                                   chk_required_ready_triggered, field_states)
         now_sat == PS_SatisfiedBy(field_states)
         log0 == Append(ps_log, <<"partial", "">>)
     IN /\ ps_partial_count' = next_partial_count(ps_partial_count)
        /\ ps_elapsed' = elapsed
        /\ chk_required_ready_triggered' = r.triggered
        /\ ps_dropped' = ps_dropped \cup (ps_sat \ now_sat)
        /\ ps_sat' = ps_sat \cup now_sat
        /\ ps_ever' = ps_ever \cup {f \in AllFields : field_states[f] = COMPLETE}
        /\ r.result \/ dt2 = 0
        /\ IF r.result
           THEN LET events == mark_event(tm_events, "required_ready",
                                         elapsed + dt2)
                    log1 == Append(log0, <<"mark", "required_ready">>)
                IN IF "on_required_ready" \in ps_handlers
                   THEN /\ ps_pc' = "await_required"
                        /\ tm_events' = events
                        /\ ps_now' = elapsed + dt2
                        /\ ps_log' = Append(log1,
                                            <<"call", "on_required_ready">>)
                        /\ ps_field_states' = field_states
                        /\ UNCHANGED chk_all_complete_triggered
                   ELSE PS_AllCheck(field_states, elapsed + dt2, dt3, log1,
                                    events)
           ELSE PS_AllCheck(field_states, elapsed, dt3, log0, tm_events)
  /\ UNCHANGED <<chk_required_fields, ps_handlers, ps_summary, ps_streams,
                 ps_final, ps_error>>
  /\ UNCHANGED ps_prev_all_complete
  /\ UNCHANGED notPS

PS_TakePartial ==
  \E partial \in StreamPartials :
    \E dt1 \in Ticks(ps_now) :
      \E dt2 \in Ticks(ps_now + dt1) :
        \E dt3 \in Ticks(ps_now + dt1 + dt2) :
          PS_NextPartial(partial, dt1, dt2, dt3)

\* await on_required_ready(field_states, elapsed) returns (line 306).
PS_RequiredHandlerReturns(dt) ==
  /\ ps_pc = "await_required"
  /\ PS_AllCheck(ps_field_states, ps_now, dt, ps_log, tm_events)
  /\ UNCHANGED <<chk_required_fields, chk_required_ready_triggered,
                 ps_handlers, ps_partial_count, ps_elapsed,
                 ps_summary, ps_streams, ps_sat, ps_dropped, ps_ever,
                 ps_final, ps_error>>
  /\ UNCHANGED ps_prev_all_complete
  /\ UNCHANGED notPS

\* await on_all_complete(field_states, elapsed) returns (line 314).
PS_AllHandlerReturns ==
  /\ ps_pc = "await_all"
  /\ ps_pc' = "loop"
  /\ ps_field_states' = NoEvents
  /\ UNCHANGED <<chkVars, tm_events, ps_handlers, ps_partial_count, ps_now,
                 ps_elapsed, ps_summary, ps_streams, ps_log,
                 ps_sat, ps_dropped, ps_ever, ps_final, ps_error>>
  /\ UNCHANGED ps_prev_all_complete
  /\ UNCHANGED notPS

\* The except clause without its raise: process_stream goes on to return.
PS_Raise_swallowed(source) ==
  /\ ps_pc' = "returned"
  /\ ps_error' = source

\* What "except Exception: print; raise" (lines 319-321, 340-342) leaves:
\* process_stream ends with the exception.
PS_Raise(source) ==
  /\ ps_pc' = "error"
  /\ ps_error' = source

\* An awaited handler raises inside the loop.
PS_HandlerRaises ==
  /\ ps_pc \in {"await_required", "await_all"}
  /\ PS_Raise("handler")
  /\ UNCHANGED <<chkVars, tm_events, ps_handlers, ps_partial_count, ps_now,
                 ps_elapsed, ps_field_states, ps_summary, ps_streams, ps_log,
                 ps_sat, ps_dropped, ps_ever, ps_final>>
  /\ UNCHANGED ps_prev_all_complete
  /\ UNCHANGED notPS

\* The upstream stream raises instead of producing a partial.
PS_StreamRaises ==
  /\ ps_pc = "loop"
  /\ PS_Raise("stream")
  /\ UNCHANGED <<chkVars, tm_events, ps_handlers, ps_partial_count, ps_now,
                 ps_elapsed, ps_field_states, ps_summary, ps_streams, ps_log,
                 ps_sat, ps_dropped, ps_ever, ps_final>>
  /\ UNCHANGED ps_prev_all_complete
  /\ UNCHANGED notPS

\* The stream is exhausted and stream.get_final_response() raises.
PS_FinalResponseRaises ==
  /\ ps_pc = "loop"
  /\ PS_Raise("final_response")
  /\ UNCHANGED <<chkVars, tm_events, ps_handlers, ps_partial_count, ps_now,
                 ps_elapsed, ps_field_states, ps_summary, ps_streams, ps_log,
                 ps_sat, ps_dropped, ps_ever, ps_final>>
  /\ UNCHANGED ps_prev_all_complete
  /\ UNCHANGED notPS

\* The stream is exhausted and the final response arrives (lines 323-338):
\* the response is dropped, the summary is built and formatted.
PS_Finish(final, dt) ==
  /\ ps_pc = "loop"
  /\ LET total_time == ps_now + dt
         required_ready_time == get_event_time(tm_events, "required_ready")
         summary == [total_time |-> total_time,
                     partial_count |-> ps_partial_count,
                     events |-> tm_events,
                     required_ready_time |-> required_ready_time]
         pct == SummaryTimeSavingsPercent(total_time, required_ready_time)
     IN /\ ps_now' = total_time
        /\ ps_final' = Some(PS_SatisfiedBy(extract_all_field_states(final)))
        /\ IF pct.kind = "ZeroDivisionError"
           THEN /\ PS_Raise("ZeroDivisionError")
                /\ UNCHANGED ps_summary
           ELSE /\ ps_pc' = "returned"
                /\ ps_summary' = Some(summary)
                /\ UNCHANGED ps_error
  /\ UNCHANGED <<chkVars, tm_events, ps_handlers, ps_partial_count,
                 ps_elapsed, ps_field_states, ps_streams, ps_log, ps_sat,
                 ps_dropped, ps_ever>>
  /\ UNCHANGED ps_prev_all_complete
  /\ UNCHANGED notPS

\* BAMLStreamProcessor.__init__
InitPS ==
  /\ IdleTS
  /\ IdleFT
  /\ IdleOthers
  /\ InitChecker
  /\ IdleChkHist
  /\ tm_events = NoEvents
  /\ ps_pc = "ready"
  /\ ps_handlers = {}
  /\ ps_partial_count = 0
  /\ ps_now = 0
  /\ ps_elapsed = 0
  /\ ps_field_states = NoEvents
  /\ ps_summary = None
  /\ ps_streams = 0
  /\ ps_log = <<>>
  /\ ps_sat = {}
  /\ ps_dropped = {}
  /\ ps_ever = {}
  /\ ps_final = None
  /\ ps_error = "none"
  /\ ps_prev_all_complete = FALSE

NextPS ==
  \/ \E handlers \in SUBSET {"on_required_ready", "on_all_complete"} :
       PS_Start(handlers)
  \/ PS_TakePartial
  \/ \E dt \in Ticks(ps_now) : PS_RequiredHandlerReturns(dt)
  \/ PS_AllHandlerReturns
  \/ PS_HandlerRaises
  \/ PS_StreamRaises
  \/ PS_FinalResponseRaises
  \/ \E final \in StreamPartials, dt \in Ticks(ps_now) : PS_Finish(final, dt)

SpecPS == InitPS /\ [][NextPS]_vars

IdleChecker ==
  /\ chk_required_fields = {}
  /\ chk_required_ready_triggered = FALSE
  /\ chk_all_complete_triggered = FALSE

InitTSFull ==
  InitTS /\ IdleChecker /\ IdleChkHist /\ IdlePS /\ IdleFT /\ IdleOthers

SpecTS == InitTSFull /\ [][NextTS]_vars

\* ------------------------------------------ fast_transition_processor.py
\* self.required_fields (line 43) and all_fields (line 72).
FT_required_fields == {"name", "email", "is_verified"}

FT_all_fields == {"name", "email", "is_verified", "bio", "age", "is_premium"}

\* What a partial profile holds for a field: None, a StreamState whose
\* state is Pending, Incomplete or Complete, or a value with no state.
FT_ValueKinds == {"None", "Pending", "Incomplete", "Complete", "plain"}

FT_Profiles == [FT_all_fields -> FT_ValueKinds]

\* The partial profiles of the modelled streams: strings grow (Incomplete),
\* booleans and numbers arrive whole.
FT_StreamProfiles ==
  {p \in [FT_all_fields -> {"None", "Incomplete", "Complete"}] :
     \A f \in {"is_verified", "age", "is_premium"} : p[f] # "Incomplete"}

\* One field of the check, with presence alone counting as complete.
FT_FieldComplete_present(kind) == kind # "None"

\* One field of _check_required_fields_complete / _check_all_fields_complete:
\* not None, and state "Complete" when it has a state.
FT_FieldComplete(kind) ==
  /\ kind # "None"
  /\ (kind \in {"Pending", "Incomplete", "Complete"} => kind = "Complete")

check_required_fields_complete(profile) ==
  \A field_name \in FT_required_fields : FT_FieldComplete(profile[field_name])

\* All fields complete, the required ones left out of the test.
check_all_fields_complete_optional_only(profile) ==
  \A field_name \in FT_all_fields \ FT_required_fields :
    FT_FieldComplete(profile[field_name])

check_all_fields_complete(profile) ==
  \A field_name \in FT_all_fields : FT_FieldComplete(profile[field_name])

\* The required fields complete, whatever the flag says.
fast_transition_trigger_unlatched(has_triggered, profile) ==
  check_required_fields_complete(profile)

\* The two nested tests of the loop (lines 116-117): the flag is clear and
\* the required fields of the partial are complete.
fast_transition_trigger(has_triggered, profile) ==
  ~has_triggered /\ check_required_fields_complete(profile)

\* Clock advance seen by one read of time.time() (absolute time).
FT_Ticks(now) == {d \in 0..1 : now + d <= MaxTime + 1}

\* Where the loop stands after "await self._execute_next_job(...)".
FT_after_create_task_awaited == "await_job"

\* Where the loop stands after asyncio.create_task(...): the call returns
\* at once and the loop goes on (lines 130-143).
FT_after_create_task == "loop"

\* asyncio.create_task: a new task, not started.
create_task(jobs, stream) ==
  Append(jobs, [state |-> "scheduled", stream |-> stream])

\* Conditions a profile satisfies (history bookkeeping).
FT_SatisfiedBy(profile) ==
  {c \in {"required"} :
     \A f \in FT_required_fields :
       profile[f] # "None" /\ profile[f] \notin {"Pending", "Incomplete"}}
  \cup {c \in {"all"} :
     \A f \in FT_all_fields :
       profile[f] # "None" /\ profile[f] \notin {"Pending", "Incomplete"}}

\* process_stream is called (lines 95-105): fresh metrics, flag cleared.
FT_Start(callback, dt) ==
  /\ ft_pc \in {"ready", "returned", "error"}
  /\ ft_streams < MaxCalls
  /\ ft_streams' = ft_streams + 1
  /\ ft_pc' = "loop"
  /\ ft_callback' = callback
  /\ ft_now' = ft_now + dt
  /\ ft_stream_start_time' = Some(ft_now + dt)
  /\ ft_required_fields_ready_time' = None
  /\ ft_all_fields_ready_time' = None
  /\ ft_next_job_start_time' = None
  /\ ft_next_job_complete_time' = None
  /\ ft_has_triggered_fast_transition' = FALSE
  /\ ft_update_count' = 0
  /\ ft_sat' = {}
  /\ ft_error' = "none"
  /\ UNCHANGED ft_jobs
  /\ UNCHANGED notFT

\* async for partial_profile in stream: one partial arrives (lines 107-143).
FT_NextPartial(profile, dt1, dt2) ==
  /\ ft_pc = "loop"
  /\ ft_update_count < MaxPartials
  /\ LET trigger == fast_transition_trigger(ft_has_triggered_fast_transition,
                                            profile)
         schedule == trigger /\ ft_callback
         record_all == /\ check_all_fields_complete(profile)
                       /\ ft_all_fields_ready_time = None
     IN /\ trigger \/ dt1 = 0
        /\ record_all \/ dt2 = 0
        /\ ft_update_count' = ft_update_count + 1
        /\ ft_now' = ft_now + dt1 + dt2
        /\ ft_has_triggered_fast_transition' =
             (ft_has_triggered_fast_transition \/ trigger)
        /\ ft_required_fields_ready_time' =
             IF trigger THEN Some(ft_now + dt1)
             ELSE ft_required_fields_ready_time
        /\ ft_jobs' = IF schedule THEN create_task(ft_jobs, ft_streams)
                      ELSE ft_jobs
        /\ ft_all_fields_ready_time' =
             IF record_all THEN Some(ft_now + dt1 + dt2)
             ELSE ft_all_fields_ready_time
        /\ ft_pc' = IF schedule THEN FT_after_create_task ELSE "loop"
        /\ ft_sat' = ft_sat \cup FT_SatisfiedBy(profile)
  /\ UNCHANGED <<ft_stream_start_time, ft_next_job_start_time,
                 ft_next_job_complete_time, ft_callback, ft_streams,
                 ft_error>>
  /\ UNCHANGED notFT

\* The clock is read at line 119 and at line 142 only: elsewhere no time
\* passes that the metrics could see.
FT_TakePartial ==
  /\ ft_pc = "loop"
  /\ \E profile \in FT_StreamProfiles :
       \E dt1 \in IF check_required_fields_complete(profile)
                  THEN FT_Ticks(ft_now) ELSE {0} :
         \E dt2 \in IF check_all_fields_complete(profile)
                    THEN FT_Ticks(ft_now + dt1) ELSE {0} :
           FT_NextPartial(profile, dt1, dt2)

\* The stream or stream.get_final_response() raises: nothing catches it.
FT_StreamRaises ==
  /\ ft_pc = "loop"
  /\ ft_pc' = "error"
  /\ ft_error' = "stream"
  /\ UNCHANGED <<ft_has_triggered_fast_transition, ft_stream_start_time,
                 ft_required_fields_ready_time, ft_all_fields_ready_time,
                 ft_next_job_start_time, ft_next_job_complete_time,
                 ft_update_count, ft_callback, ft_now, ft_jobs, ft_streams,
                 ft_sat>>
  /\ UNCHANGED notFT

\* _display_timing_analysis (lines 196-221): what its arithmetic does.
display_timing_analysis(start_time, all_ready_time, complete_time) ==
  IF /\ complete_time # None
     /\ all_ready_time # None
     /\ all_ready_time = start_time
  THEN "ZeroDivisionError"
  ELSE "ok"

\* The stream is exhausted, the final response arrives, the timing
\* analysis is displayed and the final profile returned (lines 145-152).
FT_Finish ==
  /\ ft_pc = "loop"
  /\ IF display_timing_analysis(ft_stream_start_time,
                                ft_all_fields_ready_time,
                                ft_next_job_complete_time) = "ok"
     THEN /\ ft_pc' = "returned"
          /\ UNCHANGED ft_error
     ELSE /\ ft_pc' = "error"
          /\ ft_error' = "ZeroDivisionError"
  /\ UNCHANGED <<ft_has_triggered_fast_transition, ft_stream_start_time,
                 ft_required_fields_ready_time, ft_all_fields_ready_time,
                 ft_next_job_start_time, ft_next_job_complete_time,
                 ft_update_count, ft_callback, ft_now, ft_jobs, ft_streams,
                 ft_sat>>
  /\ UNCHANGED notFT

\* The event loop runs a task that only awaits when the coroutine that is
\* running is itself at an await.
FT_AtAwait == ft_pc \in {"loop", "await_job", "returned", "error"}

\* _execute_next_job starts (line 185) and awaits the callback (line 188).
FT_JobStarts(i, dt) ==
  /\ FT_AtAwait
  /\ ft_jobs[i].state = "scheduled"
  /\ ft_jobs' = [ft_jobs EXCEPT ![i].state = "running"]
  /\ ft_now' = ft_now + dt
  /\ ft_next_job_start_time' = Some(ft_now + dt)
  /\ UNCHANGED <<ft_pc, ft_has_triggered_fast_transition,
                 ft_stream_start_time, ft_required_fields_ready_time,
                 ft_all_fields_ready_time, ft_next_job_complete_time,
                 ft_update_count, ft_callback, ft_streams, ft_sat, ft_error>>
  /\ UNCHANGED notFT

\* The callback returns: the job records its completion (lines 190-194).
FT_JobCompletes(i, dt) ==
  /\ FT_AtAwait
  /\ ft_jobs[i].state = "running"
  /\ ft_jobs' = [ft_jobs EXCEPT ![i].state = "done"]
  /\ ft_now' = ft_now + dt
  /\ ft_next_job_complete_time' = Some(ft_now + dt)
  /\ UNCHANGED <<ft_pc, ft_has_triggered_fast_transition,
                 ft_stream_start_time, ft_required_fields_ready_time,
                 ft_all_fields_ready_time, ft_next_job_start_time,
                 ft_update_count, ft_callback, ft_streams, ft_sat, ft_error>>
  /\ UNCHANGED notFT

\* The callback raises: the task ends with the exception, which nothing
\* retrieves.
FT_JobFails(i) ==
  /\ FT_AtAwait
  /\ ft_jobs[i].state = "running"
  /\ ft_jobs' = [ft_jobs EXCEPT ![i].state = "failed"]
  /\ UNCHANGED <<ft_pc, ft_has_triggered_fast_transition,
                 ft_stream_start_time, ft_required_fields_ready_time,
                 ft_all_fields_ready_time, ft_next_job_start_time,
                 ft_next_job_complete_time, ft_update_count, ft_callback,
                 ft_now, ft_streams, ft_sat, ft_error>>
  /\ UNCHANGED notFT

\* FastTransitionProcessor.__init__ (lines 40-43): no metrics yet.
InitFT ==
  /\ IdleTS /\ IdleChecker /\ IdleChkHist /\ IdlePS /\ IdleOthers
  /\ ft_pc = "ready"
  /\ ft_has_triggered_fast_transition = FALSE
  /\ ft_stream_start_time = None
  /\ ft_required_fields_ready_time = None
  /\ ft_all_fields_ready_time = None
  /\ ft_next_job_start_time = None
  /\ ft_next_job_complete_time = None
  /\ ft_update_count = 0
  /\ ft_callback = FALSE
  /\ ft_now = 1
  /\ ft_jobs = <<>>
  /\ ft_streams = 0
  /\ ft_sat = {}
  /\ ft_error = "none"

NextFT ==
  \/ \E callback \in BOOLEAN, dt \in FT_Ticks(ft_now) : FT_Start(callback, dt)
  \/ FT_TakePartial
  \/ FT_StreamRaises
  \/ FT_Finish
  \/ \E i \in DOMAIN ft_jobs, dt \in FT_Ticks(ft_now) : FT_JobStarts(i, dt)
  \/ \E i \in DOMAIN ft_jobs, dt \in FT_Ticks(ft_now) : FT_JobCompletes(i, dt)
  \/ \E i \in DOMAIN ft_jobs : FT_JobFails(i)

SpecFT == InitFT /\ [][NextFT]_vars

\* ------------------------------------- two snapshot sequences side by side
\* Lines 127-140 of track_stream for one partial: the required_ready flag
\* of the state and the tracker's set once both conditions were tested.
TS_RequiredCheck(required_fields, notified, partial) ==
  LET current_fields == extract_current_fields(partial)
      sat == RequiredSubset(required_fields, current_fields)
      required_ready == sat /\ is_new_event(notified, "required_ready")
      notified1 == IF sat THEN notified_after(notified, "required_ready")
                   ELSE notified
      notified2 == IF AllKeysEqual(current_fields)
                   THEN notified_after(notified1, "all_complete")
                   ELSE notified1
  IN [result |-> required_ready, notified |-> notified2]

\* Two field-state maps agree on the status of every required field.
MapsAgree(required_fields, m1, m2) ==
  \A f \in required_fields : StatusOf(m1, f) = StatusOf(m2, f)

\* Two partials agree on which required fields are there.
PartialsAgree(required_fields, p1, p2) ==
  \A f \in required_fields : (p1[f] = "value") <=> (p2[f] = "value")

\* One run after check_required_ready(field_states) at the given step
\* (input: the fields that were COMPLETE in the snapshot).
Pair_AfterCheck(run, field_states, step) ==
  LET r == check_required_ready(pr_required_fields, run.triggered,
                                field_states)
  IN [run EXCEPT !.triggered = r.triggered, !.result = r.result,
                 !.fired_at = IF r.result THEN step ELSE @,
                 !.input = {f \in AllFields :
                              StatusOf(field_states, f) = COMPLETE}]

\* One run after track_stream handled the partial at the given step.
Pair_AfterTrack(run, partial, step) ==
  LET r == TS_RequiredCheck(pr_required_fields, run.notified, partial)
  IN [run EXCEPT !.notified = r.notified, !.result = r.result,
                 !.fired_at = IF r.result THEN step ELSE @,
                 !.input = extract_current_fields(partial)]

\* Both checkers are given their next map.
Pair_CheckRequiredReady(m1, m2) ==
  /\ pr_kind = "checker"
  /\ pr_step < MaxPartials
  /\ MapsAgree(pr_required_fields, m1, m2)
  /\ pr_step' = pr_step + 1
  /\ pr_a' = Pair_AfterCheck(pr_a, m1, pr_step + 1)
  /\ pr_b' = Pair_AfterCheck(pr_b, m2, pr_step + 1)
  /\ UNCHANGED <<pr_kind, pr_required_fields>>
  /\ UNCHANGED notPair

\* Both track_stream loops are given their next partial.
Pair_TrackStream(p1, p2) ==
  /\ pr_kind = "track_stream"
  /\ pr_step < MaxPartials
  /\ PartialsAgree(pr_required_fields, p1, p2)
  /\ pr_step' = pr_step + 1
  /\ pr_a' = Pair_AfterTrack(pr_a, p1, pr_step + 1)
  /\ pr_b' = Pair_AfterTrack(pr_b, p2, pr_step + 1)
  /\ UNCHANGED <<pr_kind, pr_required_fields>>
  /\ UNCHANGED notPair

\* Two fresh checkers, or two track_stream loops about to start, with the
\* same required fields.
InitPair ==
  /\ IdleTS /\ IdleChecker /\ IdleChkHist /\ IdlePS /\ IdleFT /\ IdleFn
  /\ IdleMono /\ IdleUP /\ IdleSim /\ IdleDemos
  /\ pr_kind \in {"checker", "track_stream"}
  /\ pr_required_fields \in RequiredConfigs
  /\ pr_step = 0
  /\ pr_a = NoRun
  /\ pr_b = NoRun

NextPair ==
  \/ \E m1 \in FieldStateMaps, m2 \in FieldStateMaps :
       Pair_CheckRequiredReady(m1, m2)
  \/ \E p1 \in Partials, p2 \in Partials : Pair_TrackStream(p1, p2)

SpecPair == InitPair /\ [][NextPair]_vars

\* ------------------------------------------------ one call of a function
\* processor._check_required_fields_complete(profile) is called.
Fn_CheckRequiredFieldsComplete ==
  /\ fn_call.op = "none"
  /\ \E profile \in FT_Profiles :
       fn_call' = [op |-> "_check_required_fields_complete",
                   profile |-> profile,
                   result |-> check_required_fields_complete(profile)]
  /\ UNCHANGED notFn

\* processor._extract_all_field_states(partial) is called.
Fn_ExtractAllFieldStates ==
  /\ fn_call.op = "none"
  /\ \E partial \in Partials :
       fn_call' = [op |-> "_extract_all_field_states",
                   partial |-> partial,
                   result |-> extract_all_field_states(partial)]
  /\ UNCHANGED notFn

\* The times a StreamStats or a PerformanceSummary is built with.
TotalTimes == 0..MaxTotal

ReadyTimes == {None} \cup {Some(t) : t \in 0..MaxTotal}

\* stats.time_savings_percent is read.
Fn_StatsTimeSavingsPercent ==
  /\ fn_call.op = "none"
  /\ \E total_time \in TotalTimes, required_ready_time \in ReadyTimes :
       fn_call' = [op |-> "time_savings_percent",
                   class |-> "StreamStats",
                   total_time |-> total_time,
                   required_ready_time |-> required_ready_time,
                   result |-> StatsTimeSavingsPercent(total_time,
                                                      required_ready_time)]
  /\ UNCHANGED notFn

\* summary.time_savings_percent is read.
Fn_SummaryTimeSavingsPercent ==
  /\ fn_call.op = "none"
  /\ \E total_time \in TotalTimes, required_ready_time \in ReadyTimes :
       fn_call' = [op |-> "time_savings_percent",
                   class |-> "PerformanceSummary",
                   total_time |-> total_time,
                   required_ready_time |-> required_ready_time,
                   result |-> SummaryTimeSavingsPercent(total_time,
                                                        required_ready_time)]
  /\ UNCHANGED notFn

\* No entry point is running; a function is about to be called.
InitFn ==
  /\ IdleTS /\ IdleChecker /\ IdleChkHist /\ IdlePS /\ IdleFT /\ IdlePair
  /\ IdleMono /\ IdleUP /\ IdleSim /\ IdleDemos
  /\ fn_call = [op |-> "none"]

NextFn ==
  \/ Fn_CheckRequiredFieldsComplete
  \/ Fn_ExtractAllFieldStates
  \/ Fn_StatsTimeSavingsPercent
  \/ Fn_SummaryTimeSavingsPercent

SpecFn == InitFn /\ [][NextFn]_vars

\* ------------------------------ the conditions over a stream of partials
\* The conditions that hold for a field-state map when the checks are
\* evaluated with their flag not set.
HoldsUnlatched(required_fields, field_states) ==
  {c \in {"required_ready"} :
     check_required_ready(required_fields, FALSE, field_states).result}
  \cup {c \in {"all_complete"} :
     check_all_complete(FALSE, field_states).result}

\* The map of the next partial is extracted and given to both checks
\* (process_stream lines 298-308), and the conditions are evaluated without
\* the latch on the same map.
Mono_NextPartial(partial) ==
  /\ mn_run.step < MaxPartials
  /\ LET field_states == extract_all_field_states(partial)
         complete == {f \in DOMAIN field_states : field_states[f] = COMPLETE}
         holds == HoldsUnlatched(mn_required_fields, field_states)
         r == check_required_ready(mn_required_fields,
                                   mn_run.required_ready_triggered,
                                   field_states)
         a == check_all_complete(mn_run.all_complete_triggered, field_states)
         reported == {c \in {"required_ready"} : r.result}
                       \cup {c \in {"all_complete"} : a.result}
         step == mn_run.step + 1
     IN mn_run' =
          [step |-> step,
           complete |-> complete,
           regressed |-> mn_run.regressed \/ ~(mn_run.complete \subseteq complete),
           holds |-> holds,
           held |-> mn_run.held \cup holds,
           first |-> [c \in mn_run.held \cup holds |->
                        IF c \in mn_run.held THEN mn_run.first[c] ELSE step],
           required_ready_triggered |-> r.triggered,
           all_complete_triggered |-> a.triggered,
           reports |-> [c \in (DOMAIN mn_run.reports) \cup reported |->
                          (IF c \in DOMAIN mn_run.reports
                           THEN mn_run.reports[c] ELSE 0)
                          + (IF c \in reported THEN 1 ELSE 0)]]
  /\ UNCHANGED mn_required_fields
  /\ UNCHANGED notMono

\* A fresh checker and a stream about to start.
InitMono ==
  /\ IdleTS /\ IdleChecker /\ IdleChkHist /\ IdlePS /\ IdleFT /\ IdlePair
  /\ IdleFn /\ IdleUP /\ IdleSim /\ IdleDemos
  /\ mn_required_fields \in RequiredConfigs
  /\ mn_run = NoMaps

NextMono == \E partial \in Partials : Mono_NextPartial(partial)

SpecMono == InitMono /\ [][NextMono]_vars

\* ------------------------------- UserProfileState called directly
\* state.update_field(field_name, value, is_complete) on a state with no
\* callbacks set, as test_imports.py and demo_showcase.py call it.
UPS_UpdateField(field_name, value, is_complete_arg) ==
  /\ sp_pc = "idle"
  /\ ~up_on_ready_for_next_job
  /\ up_state' = update_field(up_state, field_name, value, is_complete_arg)
  /\ UNCHANGED <<up_on_ready_for_next_job, sp_pc, sp_next_job_triggered,
                 sp_welcome_message, sp_tasks, sp_running, sp_partial_count,
                 sp_calls, sp_process_user_calls, sp_stream_raised,
                 sp_final, sp_error>>
  /\ UNCHANGED notUP

\* state = UserProfileState()
InitUPS ==
  /\ IdleTS /\ IdleChecker /\ IdleChkHist /\ IdlePS /\ IdleFT /\ IdlePair
  /\ IdleFn /\ IdleMono /\ IdleUP /\ IdleSim /\ IdleDemos

NextUPS ==
  \E field_name \in UP_Fields, value \in UP_ValueKinds, c \in BOOLEAN :
    UPS_UpdateField(field_name, value, c)

SpecUPS == InitUPS /\ [][NextUPS]_vars

\* ------------------------------------------- streaming_simulation.py
\* Times are tenths of a second since start_time.
\* The arrival schedule of simulate_realistic_streaming.
field_updates ==
  << [field_name |-> "name", timestamp |-> 8],
     [field_name |-> "email", timestamp |-> 12],
     [field_name |-> "bio", timestamp |-> 28],
     [field_name |-> "age", timestamp |-> 35] >>

\* _execute_strategy: job_duration = 1.5
job_duration == 15

Later(a, b) == IF a >= b THEN a ELSE b

\* StreamingData.has_required_fields
StreamingData_has_required_fields(data) ==
  data.name # "None" /\ data.email # "None"

\* StreamingData.has_all_fields: all([...]) over the four values.
has_all_fields(data) ==
  \A f \in {"name", "email", "bio", "age"} : data[f] = "value"

\* The fast check without the test of the result kept so far.
fast_strategy_trigger_unlatched(fast_result, data) ==
  StreamingData_has_required_fields(data)

\* Line 82: if fast_strategy_result is None and
\* self.data.has_required_fields()
fast_strategy_trigger(fast_result, data) ==
  fast_result = None /\ StreamingData_has_required_fields(data)

\* Where simulate_realistic_streaming goes once the checks of one update
\* are through: the next update, or past the loop, where a missing FULL
\* result is produced before the results are displayed.
Sim_AfterChecks(idx, full) ==
  IF idx <= Len(field_updates) THEN "sleep"
  ELSE IF full = None THEN "full_job" ELSE "display"

\* One turn of the for loop up to its first await of a job: the sleep until
\* the update's timestamp (asyncio.sleep of a delay that is not positive
\* returns at once), the read of current_time, the setattr, the two checks.
Sim_NextUpdate(overrun) ==
  /\ sim_pc = "sleep"
  /\ LET update == field_updates[sim_idx]
         current_time == Later(sim_now, update.timestamp) + overrun
         data == [sim_data EXCEPT ![update.field_name] = "value"]
     IN /\ sim_now' = current_time
        /\ sim_current_time' = current_time
        /\ sim_data' = data
        /\ sim_applied' = [sim_applied EXCEPT
                             ![update.field_name] = Some(current_time)]
        /\ sim_idx' = sim_idx + 1
        /\ sim_pc' =
             IF fast_strategy_trigger(fast_strategy_result, data)
             THEN "fast_job"
             ELSE IF full_strategy_result = None /\ has_all_fields(data)
                  THEN "full_job"
                  ELSE Sim_AfterChecks(sim_idx + 1, full_strategy_result)
  /\ UNCHANGED <<fast_strategy_result, full_strategy_result>>
  /\ UNCHANGED notSim

\* _execute_strategy: the StrategyResult built after the job's sleep.
StrategyResult(strategy_name, start_time, end_time) ==
  [strategy_name |-> strategy_name, next_job_start_time |-> start_time,
   next_job_duration |-> job_duration, total_time |-> end_time]

\* await self._execute_strategy("FAST", current_time) returns; the loop
\* body goes on with the check for the full strategy.
Sim_FastJobCompletes(overrun) ==
  /\ sim_pc = "fast_job"
  /\ LET end_time == sim_now + job_duration + overrun
     IN /\ sim_now' = end_time
        /\ fast_strategy_result' =
             Some(StrategyResult("FAST", sim_current_time, end_time))
  /\ sim_pc' = IF full_strategy_result = None /\ has_all_fields(sim_data)
               THEN "full_job"
               ELSE Sim_AfterChecks(sim_idx, full_strategy_result)
  /\ UNCHANGED <<sim_idx, sim_data, sim_current_time, full_strategy_result,
                 sim_applied>>
  /\ UNCHANGED notSim

\* await self._execute_strategy("FULL", current_time) returns, in the loop
\* or after it (where current_time is read again, line 93).
Sim_FullJobCompletes(overrun) ==
  /\ sim_pc = "full_job"
  /\ LET end_time == sim_now + job_duration + overrun
         current_time == IF sim_idx > Len(field_updates)
                            /\ ~has_all_fields(sim_data)
                         THEN sim_now ELSE sim_current_time
         result == StrategyResult("FULL", current_time, end_time)
     IN /\ sim_now' = end_time
        /\ full_strategy_result' = Some(result)
        /\ sim_pc' = Sim_AfterChecks(sim_idx, Some(result))
  /\ UNCHANGED <<sim_idx, sim_data, sim_current_time, fast_strategy_result,
                 sim_applied>>
  /\ UNCHANGED notSim

\* _display_results: the simulation is over.
Sim_DisplayResults ==
  /\ sim_pc = "display"
  /\ sim_pc' = "done"
  /\ UNCHANGED <<sim_now, sim_idx, sim_data, sim_current_time,
                 fast_strategy_result, full_strategy_result, sim_applied>>
  /\ UNCHANGED notSim

\* simulation = StreamingSimulation(); simulate_realistic_streaming() is
\* about to run.
InitSim ==
  /\ IdleTS /\ IdleChecker /\ IdleChkHist /\ IdlePS /\ IdleFT /\ IdlePair
  /\ IdleFn /\ IdleMono /\ IdleUP /\ IdleDemos
  /\ sim_pc = "sleep"
  /\ sim_now = 0
  /\ sim_idx = 1
  /\ sim_data = StreamingData
  /\ sim_current_time = 0
  /\ fast_strategy_result = None
  /\ full_strategy_result = None
  /\ sim_applied = NothingApplied

NextSim ==
  \/ \E overrun \in Overruns : Sim_NextUpdate(overrun)
  \/ \E overrun \in Overruns : Sim_FastJobCompletes(overrun)
  \/ \E overrun \in Overruns : Sim_FullJobCompletes(overrun)
  \/ Sim_DisplayResults

SpecSim == InitSim /\ [][NextSim]_vars

\* ------------------------- src/streaming_demo.py: StreamingProcessor
\* What a partial holds for a field.  name and email: None or a string;
\* bio and age: None, a StreamState that is not Complete yet, a Complete
\* StreamState, or a value with no state; age can also be an attribute the
\* partial does not have.
SP_PartialKinds ==
  [name |-> {"None", "value"},
   email |-> {"None", "value"},
   bio |-> {"None", "Incomplete", "Complete", "plain"},
   age |-> {"missing", "None", "Incomplete", "Complete", "plain"}]

SP_Partials ==
  {p \in [UP_Fields -> {"missing", "None", "Incomplete", "Complete",
                        "plain", "value"}] :
     \A f \in UP_Fields : p[f] \in SP_PartialKinds[f]}

\* The final UserProfile: each field None, falsy ("" or 0) or another value.
SP_Finals == [UP_Fields -> UP_ValueKinds]

\* One update_field call.
Update(field_name, value, is_complete_arg) ==
  [field_name |-> field_name, value |-> value,
   is_complete |-> is_complete_arg]

\* _process_partial_response: the update_field calls a partial leads to, in
\* the order of the code.  What is stored for bio and age is a StreamState
\* object, here a value that is not None.
PartialUpdates(partial) ==
  (IF partial.name \notin {"missing", "None"}
   THEN <<Update("name", "value", TRUE)>> ELSE << >>)
  \o (IF partial.email \notin {"missing", "None"}
      THEN <<Update("email", "value", TRUE)>> ELSE << >>)
  \o (IF partial.bio \notin {"missing", "None"}
      THEN <<Update("bio", "value", partial.bio # "Incomplete")>>
      ELSE << >>)
  \o (IF partial.age \notin {"missing", "None"}
      THEN <<Update("age", "value", partial.age # "Incomplete")>>
      ELSE IF partial.age = "None"
           THEN <<Update("age", "value", FALSE)>>
           ELSE << >>)

\* _process_final_response: one update_field call, is_complete=True, for
\* every field of the final record that is truthy.
FinalUpdates(final) ==
  (IF final.name = "value"
   THEN <<Update("name", "value", TRUE)>> ELSE << >>)
  \o (IF final.email = "value"
      THEN <<Update("email", "value", TRUE)>> ELSE << >>)
  \o (IF final.bio = "value"
      THEN <<Update("bio", "value", TRUE)>> ELSE << >>)
  \o (IF final.age = "value"
      THEN <<Update("age", "value", TRUE)>> ELSE << >>)

\* The update_field calls made one after the other: the state they leave
\* and the number of ready-tasks they schedule.
RECURSIVE ApplyUpdates(_, _, _, _)
ApplyUpdates(state, scheduled, updates, on_ready_for_next_job) ==
  IF updates = << >>
  THEN [state |-> state, scheduled |-> scheduled]
  ELSE LET u == Head(updates)
           after == update_field(state, u.field_name, u.value, u.is_complete)
       IN ApplyUpdates(after,
                       scheduled
                         + (IF schedules_ready_task(after,
                                                    on_ready_for_next_job)
                            THEN 1 ELSE 0),
                       Tail(updates), on_ready_for_next_job)

\* The test of _on_ready_for_next_job without the flag.
ready_for_next_job_unlatched(next_job_triggered, state) ==
  has_required_fields(state)

\* _on_ready_for_next_job, line 166.
ready_for_next_job(next_job_triggered, state) ==
  ~next_job_triggered /\ has_required_fields(state)

\* Where process_user_input stands when the error is not caught.
SP_after_stream_error_propagated == "error"

\* Where process_user_input stands after the except clause of lines 79-81:
\* at the await of get_final_response.
SP_after_stream_error == "await_final"

\* process_user_input is called (lines 64-74): the callbacks are set, the
\* stream is created.  Neither the state nor next_job_triggered is reset.
SP_Start ==
  /\ sp_pc \in {"ready", "returned", "error"}
  /\ sp_calls < MaxCalls
  /\ sp_calls' = sp_calls + 1
  /\ sp_pc' = "iter"
  /\ up_on_ready_for_next_job' = TRUE
  /\ sp_partial_count' = 0
  /\ sp_stream_raised' = FALSE
  /\ sp_final' = None
  /\ sp_error' = "none"
  /\ UNCHANGED <<up_state, sp_next_job_triggered, sp_welcome_message,
                 sp_tasks, sp_running, sp_process_user_calls>>
  /\ UNCHANGED notUP

\* async for partial in stream: a partial arrives and
\* _process_partial_response runs to its end (no await in it suspends).
\* The runs explored keep at most MaxTasks ready-tasks pending.
SP_NextPartial(partial) ==
  /\ sp_pc = "iter"
  /\ sp_partial_count < MaxPartials
  /\ LET r == ApplyUpdates(up_state, 0, PartialUpdates(partial),
                           up_on_ready_for_next_job)
     IN /\ sp_tasks + r.scheduled <= MaxTasks
        /\ up_state' = r.state
        /\ sp_tasks' = sp_tasks + r.scheduled
  /\ sp_partial_count' = sp_partial_count + 1
  /\ UNCHANGED <<up_on_ready_for_next_job, sp_pc, sp_next_job_triggered,
                 sp_welcome_message, sp_running, sp_calls,
                 sp_process_user_calls, sp_stream_raised, sp_final,
                 sp_error>>
  /\ UNCHANGED notUP

\* The stream raises inside the async for: the except clause prints.
SP_StreamRaises ==
  /\ sp_pc = "iter"
  /\ sp_pc' = SP_after_stream_error
  /\ sp_stream_raised' = TRUE
  /\ sp_error' = IF SP_after_stream_error = "error" THEN "stream"
                 ELSE sp_error
  /\ UNCHANGED <<up_state, up_on_ready_for_next_job, sp_next_job_triggered,
                 sp_welcome_message, sp_tasks, sp_running, sp_partial_count,
                 sp_calls, sp_process_user_calls, sp_final>>
  /\ UNCHANGED notUP

\* The stream is exhausted.
SP_StreamEnds ==
  /\ sp_pc = "iter"
  /\ sp_pc' = "await_final"
  /\ UNCHANGED <<up_state, up_on_ready_for_next_job, sp_next_job_triggered,
                 sp_welcome_message, sp_tasks, sp_running, sp_partial_count,
                 sp_calls, sp_process_user_calls, sp_stream_raised,
                 sp_final, sp_error>>
  /\ UNCHANGED notUP

\* get_final_response returns; _process_final_response runs and
\* process_user_input returns with no await that suspends in between
\* (lines 84-87).  sp_final keeps the fields of the final record that
\* were truthy.
SP_FinalResponse(final) ==
  /\ sp_pc = "await_final"
  /\ LET r == ApplyUpdates(up_state, 0, FinalUpdates(final),
                           up_on_ready_for_next_job)
     IN /\ sp_tasks + r.scheduled <= MaxTasks
        /\ up_state' = r.state
        /\ sp_tasks' = sp_tasks + r.scheduled
  /\ sp_final' = Some({f \in UP_Fields : final[f] = "value"})
  /\ sp_pc' = "returned"
  /\ UNCHANGED <<up_on_ready_for_next_job, sp_next_job_triggered,
                 sp_welcome_message, sp_running, sp_partial_count, sp_calls,
                 sp_process_user_calls, sp_stream_raised, sp_error>>
  /\ UNCHANGED notUP

\* get_final_response raises: nothing catches it.
SP_FinalResponseRaises ==
  /\ sp_pc = "await_final"
  /\ sp_pc' = "error"
  /\ sp_error' = "final_response"
  /\ UNCHANGED <<up_state, up_on_ready_for_next_job, sp_next_job_triggered,
                 sp_welcome_message, sp_tasks, sp_running, sp_partial_count,
                 sp_calls, sp_process_user_calls, sp_stream_raised,
                 sp_final>>
  /\ UNCHANGED notUP

\* The event loop runs one pending ready-task, _on_ready_for_next_job, up
\* to its end or to its await of b.ProcessUser (lines 166-177).  It can do
\* so whenever process_user_input is suspended or over, which is wherever
\* the actions above leave it.
SP_TaskRuns ==
  /\ sp_tasks > 0
  /\ sp_tasks' = sp_tasks - 1
  /\ IF ready_for_next_job(sp_next_job_triggered, up_state)
     THEN /\ sp_next_job_triggered' = TRUE
          /\ sp_process_user_calls' = sp_process_user_calls + 1
          /\ sp_running' = sp_running + 1
     ELSE UNCHANGED <<sp_next_job_triggered, sp_process_user_calls,
                      sp_running>>
  /\ UNCHANGED <<up_state, up_on_ready_for_next_job, sp_pc,
                 sp_welcome_message, sp_partial_count, sp_calls,
                 sp_stream_raised, sp_final, sp_error>>
  /\ UNCHANGED notUP

\* b.ProcessUser returns: the welcome message is stored (line 177).
SP_ProcessUserReturns ==
  /\ sp_running > 0
  /\ sp_running' = sp_running - 1
  /\ sp_welcome_message' = Some("welcome")
  /\ UNCHANGED <<up_state, up_on_ready_for_next_job, sp_pc,
                 sp_next_job_triggered, sp_tasks, sp_partial_count,
                 sp_calls, sp_process_user_calls, sp_stream_raised,
                 sp_final, sp_error>>
  /\ UNCHANGED notUP

\* b.ProcessUser raises: the task prints the error (lines 180-181).
SP_ProcessUserRaises ==
  /\ sp_running > 0
  /\ sp_running' = sp_running - 1
  /\ UNCHANGED <<up_state, up_on_ready_for_next_job, sp_pc,
                 sp_next_job_triggered, sp_welcome_message, sp_tasks,
                 sp_partial_count, sp_calls, sp_process_user_calls,
                 sp_stream_raised, sp_final, sp_error>>
  /\ UNCHANGED notUP

\* processor = StreamingProcessor()
InitSP ==
  /\ IdleTS /\ IdleChecker /\ IdleChkHist /\ IdlePS /\ IdleFT /\ IdlePair
  /\ IdleFn /\ IdleMono /\ IdleSim /\ IdleDemos
  /\ up_state = UserProfileState
  /\ up_on_ready_for_next_job = FALSE
  /\ sp_pc = "ready"
  /\ sp_next_job_triggered = FALSE
  /\ sp_welcome_message = None
  /\ sp_tasks = 0
  /\ sp_running = 0
  /\ sp_partial_count = 0
  /\ sp_calls = 0
  /\ sp_process_user_calls = 0
  /\ sp_stream_raised = FALSE
  /\ sp_final = None
  /\ sp_error = "none"

NextSP ==
  \/ SP_Start
  \/ \E partial \in SP_Partials : SP_NextPartial(partial)
  \/ SP_StreamRaises
  \/ SP_StreamEnds
  \/ \E final \in SP_Finals : SP_FinalResponse(final)
  \/ SP_FinalResponseRaises
  \/ SP_TaskRuns
  \/ SP_ProcessUserReturns
  \/ SP_ProcessUserRaises

SpecSP == InitSP /\ [][NextSP]_vars

\* ------------------------------------------------------ specifications
\* track_stream / simple_track and process_stream, one of them per run.
SpecStreams == (InitTSFull \/ InitPS) /\ [][NextTS \/ NextPS]_vars

\* A RequiredFieldsChecker called directly, or through process_stream.
SpecHelpers == (InitChk \/ InitPS) /\ [][NextChk \/ NextPS]_vars

\* ------------------------------- conceptual_fast_transition_demo.py
\* Times are tenths of a second since start_time.
\* __init__: self.required_fields
CF_required_fields == {"name", "email", "is_verified"}

\* The updates of simulate_streaming_with_states (lines 42-104): the time
\* of each and the state of every StreamState in its "fields" dict.
updates ==
  << [time |-> 5,
      fields |-> [name |-> "Incomplete", email |-> "Pending",
                  is_verified |-> "Pending"]],
     [time |-> 10,
      fields |-> [name |-> "Complete", email |-> "Incomplete",
                  is_verified |-> "Pending"]],
     [time |-> 15,
      fields |-> [name |-> "Complete", email |-> "Complete",
                  is_verified |-> "Incomplete"]],
     [time |-> 20,
      fields |-> [name |-> "Complete", email |-> "Complete",
                  is_verified |-> "Complete", bio |-> "Incomplete"]],
     [time |-> 30,
      fields |-> [name |-> "Complete", email |-> "Complete",
                  is_verified |-> "Complete", bio |-> "Complete",
                  age |-> "Complete", is_premium |-> "Incomplete"]],
     [time |-> 35,
      fields |-> [name |-> "Complete", email |-> "Complete",
                  is_verified |-> "Complete", bio |-> "Complete",
                  age |-> "Complete", is_premium |-> "Complete"]] >>

\* process_next_job: await asyncio.sleep(1.5)
CF_job_sleep == 15

\* update["fields"].get(f, StreamState(None, "Pending")).state
CF_StateOf(fields, f) == IF f \in DOMAIN fields THEN fields[f] ELSE "Pending"

\* Lines 141-144: all(... == "Complete" for f in self.required_fields)
required_complete(fields) ==
  \A f \in CF_required_fields : CF_StateOf(fields, f) = "Complete"

\* Leaving the function after the loop without looking at the task.
CF_after_loop_no_wait(next_job_task) == "returned"

\* Lines 165-166: if next_job_task: await next_job_task.  Awaiting a task
\* that is done returns at once.
CF_after_loop(next_job_task) ==
  IF next_job_task \in {"created", "sleeping"} THEN "await_task"
  ELSE "returned"

\* When the sleep of line 112 is due: it was asked for when the previous
\* update had been handled, for the time left until the update's time; a
\* delay that is not positive gives the loop one turn and returns.
CF_LoopWake == Later(cf_elapsed, updates[cf_idx].time)

\* One turn of the for loop (lines 110-162): the sleep ends, elapsed is
\* read, the states are displayed, the trigger is checked and, on a
\* trigger, the job task is created.  A created task is run by the event
\* loop before any sleeper is woken, and sleepers are woken in the order
\* of their due times.
CF_NextUpdate(overrun) ==
  /\ cf_pc = "loop"
  /\ cf_next_job_task # "created"
  /\ cf_next_job_task = "sleeping" => CF_LoopWake <= cf_task_wake
  /\ LET elapsed == Later(cf_now, CF_LoopWake) + overrun
         trigger == required_complete(updates[cf_idx].fields)
                      /\ ~cf_has_triggered_fast_transition
     IN /\ cf_now' = elapsed
        /\ cf_elapsed' = elapsed
        /\ cf_has_triggered_fast_transition' =
             (cf_has_triggered_fast_transition \/ trigger)
        /\ cf_next_job_task' =
             IF trigger THEN "created" ELSE cf_next_job_task
        /\ UNCHANGED cf_task_wake
        /\ cf_triggers' =
             IF trigger THEN Append(cf_triggers, cf_idx) ELSE cf_triggers
        /\ cf_during' = IF cf_next_job_task \in {"created", "sleeping"}
                        THEN cf_during \cup {cf_idx} ELSE cf_during
        /\ cf_idx' = cf_idx + 1
        /\ cf_pc' = IF cf_idx < Len(updates) THEN "loop"
                    ELSE CF_after_loop(cf_next_job_task')
  /\ UNCHANGED notCF

\* The function is suspended (in the sleep of the next turn or in the
\* await of the task) and the event loop starts process_next_job, which
\* asks for its sleep of 1.5 s.
CF_JobStarts(overrun) ==
  /\ cf_next_job_task = "created"
  /\ cf_pc \in {"loop", "await_task"}
  /\ cf_now' = cf_now + overrun
  /\ cf_next_job_task' = "sleeping"
  /\ cf_task_wake' = cf_now + overrun + CF_job_sleep
  /\ UNCHANGED <<cf_pc, cf_idx, cf_elapsed,
                 cf_has_triggered_fast_transition, cf_triggers, cf_during>>
  /\ UNCHANGED notCF

\* process_next_job: its sleep ends, it prints and the task is done.
CF_JobCompletes(overrun) ==
  /\ cf_next_job_task = "sleeping"
  /\ cf_pc \in {"loop", "await_task"}
  /\ cf_pc = "loop" => cf_task_wake <= CF_LoopWake
  /\ cf_now' = Later(cf_now, cf_task_wake) + overrun
  /\ cf_next_job_task' = "done"
  /\ UNCHANGED <<cf_pc, cf_idx, cf_elapsed,
                 cf_has_triggered_fast_transition, cf_task_wake,
                 cf_triggers, cf_during>>
  /\ UNCHANGED notCF

\* await next_job_task returns (line 166); the analysis is printed and
\* simulate_streaming_with_states returns.
CF_TaskAwaited ==
  /\ cf_pc = "await_task"
  /\ cf_next_job_task = "done"
  /\ cf_pc' = "returned"
  /\ UNCHANGED <<cf_idx, cf_now, cf_elapsed,
                 cf_has_triggered_fast_transition, cf_next_job_task,
                 cf_task_wake, cf_triggers, cf_during>>
  /\ UNCHANGED notCF

\* demo = ConceptualFastTransitionDemo(); simulate_streaming_with_states
\* has set its locals (lines 106-108).
InitCF ==
  /\ IdleTS /\ IdleChecker /\ IdleChkHist /\ IdlePS /\ IdleFT /\ IdlePair
  /\ IdleFn /\ IdleMono /\ IdleUP /\ IdleSim /\ IdleCE
  /\ cf_pc = "loop"
  /\ cf_idx = 1
  /\ cf_now = 0
  /\ cf_elapsed = 0
  /\ cf_has_triggered_fast_transition = FALSE
  /\ cf_next_job_task = "None"
  /\ cf_task_wake = 0
  /\ cf_triggers = <<>>
  /\ cf_during = {}

NextCF ==
  \/ \E overrun \in Overruns : CF_NextUpdate(overrun)
  \/ \E overrun \in Overruns : CF_JobStarts(overrun)
  \/ \E overrun \in Overruns : CF_JobCompletes(overrun)
  \/ CF_TaskAwaited

SpecCF == InitCF /\ [][NextCF]_vars

\* ----------------------------------------- complex_employee_demo.py
\* Line 108
critical_fields == {"employee_id", "full_name", "email", "department",
                    "job_title"}

\* What a partial profile holds for a critical field: no such attribute,
\* None, an object with state and value whose state is not "Complete"
\* ("Incomplete" standing for "Pending" too), one whose state is
\* "Complete", or a value with no state.
CE_AttrKinds == {"missing", "None", "Incomplete", "Complete", "plain"}

CE_Partials == [critical_fields -> CE_AttrKinds]

\* getattr(partial_profile, field_name, None)
CE_getattr(partial, field_name) ==
  IF partial[field_name] = "missing" THEN "None" ELSE partial[field_name]

\* The loop body for one field with a None that leaves critical_ready as
\* it is.
CE_field_keeps_ready_none_ignored(field_value) == field_value # "Incomplete"

\* Lines 127-144 for one field: whether it leaves critical_ready True (a
\* None clears it, and so does a state other than "Complete") ...
CE_field_keeps_ready(field_value) == field_value \in {"Complete", "plain"}

\* ... and whether it gets an entry in critical_values (every field that
\* is not None does: the .value of a stateful one, the plain value).
CE_field_has_value(field_value) == field_value # "None"

\* Lines 121-144: critical_ready and the keys of critical_values after the
\* loop over critical_fields.
CE_CheckCriticalFields(partial) ==
  [critical_ready |->
     \A f \in critical_fields : CE_field_keeps_ready(CE_getattr(partial, f)),
   critical_values |->
     {f \in critical_fields : CE_field_has_value(CE_getattr(partial, f))}]

\* Line 174: if critical_ready and not has_triggered_fast_transition and
\* len(critical_values) == 5
CE_trigger(critical_ready, has_triggered, critical_values) ==
  critical_ready /\ ~has_triggered /\ Cardinality(critical_values) = 5

\* A partial in which every critical field is there, not None and, where
\* it has a state, Complete (history bookkeeping).
CE_Eligible(partial) ==
  \A f \in critical_fields : partial[f] \in {"Complete", "plain"}

\* async for partial_profile in stream: the loop body for one partial
\* (lines 114-197).
CE_NextPartial(partial) ==
  /\ ce_pc = "loop"
  /\ ce_update_count < MaxPartials
  /\ LET c == CE_CheckCriticalFields(partial)
         trigger == CE_trigger(c.critical_ready,
                               ce_has_triggered_fast_transition,
                               c.critical_values)
     IN /\ ce_update_count' = ce_update_count + 1
        /\ ce_critical_ready' = c.critical_ready
        /\ ce_critical_values' = c.critical_values
        /\ ce_has_triggered_fast_transition' =
             (ce_has_triggered_fast_transition \/ trigger)
        /\ ce_onboarding' = IF trigger THEN "created" ELSE ce_onboarding
        /\ ce_created' = IF trigger
                         THEN Append(ce_created, ce_update_count + 1)
                         ELSE ce_created
        /\ ce_first_eligible' =
             IF ce_first_eligible = 0 /\ CE_Eligible(partial)
             THEN ce_update_count + 1 ELSE ce_first_eligible
  /\ UNCHANGED ce_pc
  /\ UNCHANGED notCE

\* The stream is exhausted, or it raises and "except Exception" prints
\* the error (lines 199-201): the function goes on to the final response.
CE_StreamEnds ==
  /\ ce_pc = "loop"
  /\ ce_pc' = "final"
  /\ UNCHANGED <<ce_update_count, ce_has_triggered_fast_transition,
                 ce_critical_ready, ce_critical_values, ce_onboarding,
                 ce_first_eligible, ce_created>>
  /\ UNCHANGED notCE

\* Lines 204-229: the final response is printed, or its error is; then
\* the function sleeps for 2 s.
CE_FinalResponse ==
  /\ ce_pc = "final"
  /\ ce_pc' = "sleep"
  /\ UNCHANGED <<ce_update_count, ce_has_triggered_fast_transition,
                 ce_critical_ready, ce_critical_values, ce_onboarding,
                 ce_first_eligible, ce_created>>
  /\ UNCHANGED notCE

\* The event loop starts start_onboarding while the function is suspended.
CE_OnboardingStarts ==
  /\ ce_onboarding = "created"
  /\ ce_pc \in {"loop", "final", "sleep"}
  /\ ce_onboarding' = "running"
  /\ UNCHANGED <<ce_pc, ce_update_count, ce_has_triggered_fast_transition,
                 ce_critical_ready, ce_critical_values, ce_first_eligible,
                 ce_created>>
  /\ UNCHANGED notCE

\* b.InitiateEmployeeOnboarding returns or raises: the task is done.
CE_OnboardingEnds ==
  /\ ce_onboarding = "running"
  /\ ce_pc \in {"loop", "final", "sleep"}
  /\ ce_onboarding' = "done"
  /\ UNCHANGED <<ce_pc, ce_update_count, ce_has_triggered_fast_transition,
                 ce_critical_ready, ce_critical_values, ce_first_eligible,
                 ce_created>>
  /\ UNCHANGED notCE

\* The sleep of line 232 is over (a created task was started during it)
\* and the function returns; a task still running is left behind.
CE_Return ==
  /\ ce_pc = "sleep"
  /\ ce_onboarding # "created"
  /\ ce_pc' = "returned"
  /\ UNCHANGED <<ce_update_count, ce_has_triggered_fast_transition,
                 ce_critical_ready, ce_critical_values, ce_onboarding,
                 ce_first_eligible, ce_created>>
  /\ UNCHANGED notCE

\* complex_employee_streaming_demo has set its locals (lines 104-110).
InitCE ==
  /\ IdleTS /\ IdleChecker /\ IdleChkHist /\ IdlePS /\ IdleFT /\ IdlePair
  /\ IdleFn /\ IdleMono /\ IdleUP /\ IdleSim /\ IdleCF
  /\ ce_pc = "loop"
  /\ ce_update_count = 0
  /\ ce_has_triggered_fast_transition = FALSE
  /\ ce_critical_ready = FALSE
  /\ ce_critical_values = {}
  /\ ce_onboarding = "none"
  /\ ce_first_eligible = 0
  /\ ce_created = <<>>

NextCE ==
  \/ \E partial \in CE_Partials : CE_NextPartial(partial)
  \/ CE_StreamEnds
  \/ CE_FinalResponse
  \/ CE_OnboardingStarts
  \/ CE_OnboardingEnds
  \/ CE_Return

SpecCE == InitCE /\ [][NextCE]_vars

\* track_stream / simple_track, or a RequiredFieldsChecker called directly.
SpecTrackOrChecker == (InitTSFull \/ InitChk) /\ [][NextTS \/ NextChk]_vars

\* ------------------------------------------------------------- claims
\* Number of entries e of the process_stream log.
LogCount(log, e) == Len(SelectSeq(log, LAMBDA x : x = e))

\* Position of the first entry e of the log (0: none).
LogFirst(log, e) ==
  IF \E i \in 1..Len(log) : log[i] = e
  THEN CHOOSE i \in 1..Len(log) : log[i] = e /\ \A j \in 1..(i - 1) : log[j] # e
  ELSE 0

\* Position of the last entry e of the log (0: none).
LogLast(log, e) ==
  IF \E i \in 1..Len(log) : log[i] = e
  THEN CHOOSE i \in 1..Len(log) :
         log[i] = e /\ \A j \in (i + 1)..Len(log) : log[j] # e
  ELSE 0

\* C1: over a whole stream track_stream yields at most one StreamState with
\* required_ready = True and at most one with all_complete = True.
C1_AtMostOneTrueState ==
  /\ ts_n_required_ready <= 1
  /\ ts_n_all_complete <= 1

\* C1 witness: both conditions fired earlier, were then unsatisfied by a
\* partial, and the partial just yielded satisfies both again with both
\* flags False.
C1_Witness ==
  /\ ts_pc = "yielded"
  /\ ts_required_fields # {}
  /\ ts_dropped = {"required_ready", "all_complete"}
  /\ ts_state.fields = AllFields
  /\ ~ts_state.required_ready
  /\ ~ts_state.all_complete
  /\ ts_n_required_ready = 1
  /\ ts_n_all_complete = 1

\* C2: between two resets each check returns True at most once, a set flag
\* is cleared only by a reset, process_stream marks each event and calls
\* each handler at most once per stream, and a step taken with a flag set
\* leaves the flag, the event's time and the reports of that condition as
\* they were.
C2_CountsAtMostOnce ==
  /\ chk_n_required_true <= 1
  /\ chk_n_all_true <= 1
  /\ LogCount(ps_log, <<"mark", "required_ready">>) <= 1
  /\ LogCount(ps_log, <<"call", "on_required_ready">>) <= 1
  /\ LogCount(ps_log, <<"mark", "all_complete">>) <= 1
  /\ LogCount(ps_log, <<"call", "on_all_complete">>) <= 1

C2_IsReset == chk_last'.op = "reset" \/ ps_streams' # ps_streams

C2_LatchedStep ==
  /\ (chk_required_ready_triggered /\ ~C2_IsReset) =>
       /\ chk_required_ready_triggered'
       /\ get_event_time(tm_events', "required_ready")
            = get_event_time(tm_events, "required_ready")
       /\ LogCount(ps_log', <<"mark", "required_ready">>)
            = LogCount(ps_log, <<"mark", "required_ready">>)
       /\ LogCount(ps_log', <<"call", "on_required_ready">>)
            = LogCount(ps_log, <<"call", "on_required_ready">>)
       /\ chk_n_required_true' = chk_n_required_true
  /\ (chk_all_complete_triggered /\ ~C2_IsReset) =>
       /\ chk_all_complete_triggered'
       /\ get_event_time(tm_events', "all_complete")
            = get_event_time(tm_events, "all_complete")
       /\ LogCount(ps_log', <<"mark", "all_complete">>)
            = LogCount(ps_log, <<"mark", "all_complete">>)
       /\ LogCount(ps_log', <<"call", "on_all_complete">>)
            = LogCount(ps_log, <<"call", "on_all_complete">>)
       /\ chk_n_all_true' = chk_n_all_true

C2_AtMostOncePerReset == []C2_CountsAtMostOnce /\ [][C2_LatchedStep]_vars

\* C2 witness: process_stream is on a partial that satisfies the required
\* condition again, after the partial that triggered it.
C2_Witness ==
  /\ ps_pc = "await_all"
  /\ chk_required_fields # {}
  /\ RequiredComplete(chk_required_fields, ps_field_states)
  /\ LogFirst(ps_log, <<"mark", "required_ready">>) > 0
  /\ LogFirst(ps_log, <<"mark", "required_ready">>)
       < LogLast(ps_log, <<"partial", "">>)

\* Whether process_stream has marked the event of a condition.
PS_Fired(c) == LogCount(ps_log, <<"mark", c>>) > 0

\* process_stream is between partials, or has ended.
PS_PartialProcessed == ps_pc \in {"loop", "returned", "error"}

\* C3: once a partial has been processed, a condition has fired iff that
\* partial or an earlier one satisfied it (so it fires on the first partial
\* that satisfies it, not later and not never), and required-ready is
\* marked and its handler called before all-complete is marked.
C3_FiresOnFirstSatisfying ==
  /\ PS_PartialProcessed =>
       \A c \in {"required_ready", "all_complete"} :
         PS_Fired(c) <=> c \in ps_sat
  /\ PS_Fired("all_complete") =>
       /\ PS_Fired("required_ready")
       /\ LogFirst(ps_log, <<"mark", "required_ready">>)
            < LogFirst(ps_log, <<"mark", "all_complete">>)
       /\ LogFirst(ps_log, <<"call", "on_required_ready">>)
            < LogFirst(ps_log, <<"mark", "all_complete">>)

\* C3 without the runs a raising handler ended (what is left of the claim
\* when no handler raises).
C3_UnlessHandlerRaised == ps_error = "handler" \/ C3_FiresOnFirstSatisfying

\* C4: while an awaited handler has not finished and the stream has a
\* partial to deliver, the loop can take it.
C4_HandlerDoesNotBlock ==
  (ps_pc \in {"await_required", "await_all"} /\ ps_partial_count < MaxPartials)
    => ENABLED PS_TakePartial

\* C4, for track_stream and simple_track.
C4_TrackHandlerDoesNotBlock ==
  (ts_pc \in {"await_required", "await_all", "st_await_required",
              "st_await_all"} /\ ts_partial_count < MaxPartials)
    => ENABLED TS_TakePartial

\* A next-job task that has not finished.
FT_JobPending(i) == ft_jobs[i].state \in {"scheduled", "running"}

C5_WitnessNotStarted ==
  /\ ft_pc = "returned"
  /\ ft_streams = 1
  /\ Len(ft_jobs) = 1
  /\ ft_jobs[1].state = "scheduled"
  /\ ft_next_job_start_time = None

\* C6: process_stream never ends with the exception of a handler.
C6_HandlerFailureDoesNotAbort == ps_pc = "error" => ps_error # "handler"

\* C7: when the final response has every required field complete, the
\* returned summary has required_ready_time set.
C7_FinalResponseIsLastSnapshot ==
  (ps_pc = "returned" /\ \E sat \in ps_final : "required_ready" \in sat) =>
    \A summary \in ps_summary : summary.required_ready_time # None

\* C8: when the stream raises inside the loop, process_stream ends with the
\* exception, get_final_response has not been called and there is no
\* summary.
C8_StreamErrorSkipsSummary ==
  ps_error = "stream" =>
    /\ ps_pc = "error"
    /\ ps_final = None
    /\ ps_summary = None

\* C8 witness: the stream raised after a partial that fired required-ready.
C8_Witness ==
  /\ ps_pc = "error"
  /\ ps_error = "stream"
  /\ ps_partial_count >= 1
  /\ PS_Fired("required_ready")

\* C9: as long as some schema field has been present in no partial, no
\* yielded state has all_complete = True, simple_track has no
\* all_complete_time, and the timer and the summary have no "all_complete"
\* event.
C9_NeverAllCompleteWithoutAllFields ==
  /\ ts_ever # AllFields =>
       /\ ts_n_all_complete = 0
       /\ ~ts_state.all_complete
       /\ st_all_complete_time = None
       /\ \A stats \in st_stats : stats.all_complete_time = None
  /\ ps_ever # AllFields =>
       /\ "all_complete" \notin DOMAIN tm_events
       /\ \A summary \in ps_summary : "all_complete" \notin DOMAIN summary.events

\* C9 witness: simple_track returned its stats after a stream of three
\* partials in which two of the three fields appeared.
C9_Witness ==
  /\ ts_pc = "done"
  /\ st_stats # None
  /\ Cardinality(ts_ever) = 2
  /\ ts_partial_count = 3

\* C9 witness for process_stream: the summary of such a stream.
C9_WitnessSummary ==
  /\ ps_pc = "returned"
  /\ Cardinality(ps_ever) = 2
  /\ ps_partial_count = 3

\* C10: an untriggered check_all_complete returns True iff every field of
\* the configured set is COMPLETE in the map it was given.
C10_AllCompleteOverConfiguredSet ==
  (chk_last.op = "check_all_complete" /\ ~chk_last.before) =>
    (chk_last.result <=> AllConfiguredComplete(chk_last.map))

\* C11: an untriggered check_required_ready returns True iff every required
\* name has an entry with status COMPLETE in the map it was given; when a
\* required name has no entry it returns False and the flag stays False.
C11_RequiredReadyOverEntries ==
  (chk_last.op = "check_required_ready" /\ ~chk_last.before) =>
    /\ chk_last.result <=>
         \A name \in chk_required_fields :
           /\ name \in DOMAIN chk_last.map
           /\ chk_last.map[name] = COMPLETE
    /\ chk_required_ready_triggered = chk_last.result
    /\ (\E name \in chk_required_fields : name \notin DOMAIN chk_last.map)
         => (~chk_last.result /\ ~chk_required_ready_triggered)

\* C11 witness: an untriggered call on a map in which one required name is
\* COMPLETE and another has no entry.
C11_Witness ==
  /\ chk_last.op = "check_required_ready"
  /\ ~chk_last.before
  /\ chk_required_fields = {"name", "email"}
  /\ DOMAIN chk_last.map = {"name", "bio"}
  /\ chk_last.map["name"] = COMPLETE
  /\ ~chk_last.result

\* C12: two sequences of snapshots that agree at every step on the status
\* of each required field give the same required-ready result at every
\* step, so required-ready fires at the same step in both (or in neither),
\* whatever the other fields hold.
C12_RequiredReadyDependsOnRequiredOnly ==
  /\ pr_a.result = pr_b.result
  /\ pr_a.fired_at = pr_b.fired_at

\* C12 witness: required-ready fired at the second step of both runs, on
\* two snapshots of which one has every field and the other only the
\* required ones.
C12_Witness ==
  /\ pr_kind = "checker"
  /\ pr_required_fields = {"name"}
  /\ pr_step = 2
  /\ pr_a.fired_at = 2
  /\ pr_b.fired_at = 2
  /\ pr_a.input = AllFields
  /\ pr_b.input = {"name"}

\* C12 witness for track_stream.
C12_WitnessTrack ==
  /\ pr_kind = "track_stream"
  /\ pr_required_fields = {"name"}
  /\ pr_step = 2
  /\ pr_a.fired_at = 2
  /\ pr_b.fired_at = 2
  /\ pr_a.input = AllFields
  /\ pr_b.input = {"name"}

\* C13: _check_required_fields_complete returns True iff every required
\* field is not None and either has no state or has state "Complete"; a
\* required field that is Pending or Incomplete makes it return False.
C13_RequiredCompleteOnlyWhenComplete ==
  fn_call.op = "_check_required_fields_complete" =>
    /\ fn_call.result <=>
         \A f \in FT_required_fields :
           fn_call.profile[f] \in {"plain", "Complete"}
    /\ (\E f \in FT_required_fields :
          fn_call.profile[f] \in {"Pending", "Incomplete"})
         => ~fn_call.result

\* C13 witness: name and is_verified are complete, email is still growing.
C13_Witness ==
  /\ fn_call.op = "_check_required_fields_complete"
  /\ fn_call.profile["name"] = "Complete"
  /\ fn_call.profile["email"] = "Incomplete"
  /\ fn_call.profile["is_verified"] = "plain"
  /\ ~fn_call.result

\* C13, for process_stream: the fast transition has fired only if some
\* partial had every required field complete.
C13_FastTransitionOnlyOnComplete ==
  (ft_has_triggered_fast_transition \/ ft_required_fields_ready_time # None
     \/ (\E i \in DOMAIN ft_jobs : ft_jobs[i].stream = ft_streams))
    => "required" \in ft_sat

\* C13 witness for process_stream: a partial with a required field still
\* Incomplete was taken and the fast transition has not fired.
C13_WitnessStream ==
  /\ ft_pc = "loop"
  /\ ft_update_count = 2
  /\ ~ft_has_triggered_fast_transition
  /\ ft_jobs = << >>

\* C14: the map built by _extract_all_field_states has exactly the
\* configured fields as keys, with status COMPLETE for an attribute that
\* has a value and NONE for one that is None or not there.
C14_OneEntryPerConfiguredField ==
  fn_call.op = "_extract_all_field_states" =>
    /\ DOMAIN fn_call.result = AllFields
    /\ \A f \in DOMAIN fn_call.result :
         /\ fn_call.result[f] \in FieldStatuses
         /\ fn_call.result[f] = COMPLETE <=> fn_call.partial[f] = "value"

\* C14 witness: a partial with one attribute set, one None and one that
\* it does not expose.
C14_Witness ==
  /\ fn_call.op = "_extract_all_field_states"
  /\ fn_call.partial["name"] = "value"
  /\ fn_call.partial["email"] = "None"
  /\ fn_call.partial["bio"] = "missing"
  /\ "bio" \in DOMAIN fn_call.result
  /\ fn_call.result["bio"] = NONE

\* C15: a reset (checker.reset() called directly, or the two resets at the
\* start of process_stream) leaves both flags False and required_fields as
\* it was, and at the start of process_stream the timer has no event; so
\* in every stream of a reused processor the timer and the summary hold
\* only events marked during that stream, and required-ready has fired as
\* soon as a partial of that stream satisfied it.
C15_ResetStep ==
  /\ (chk_last'.op = "reset" \/ ps_streams' # ps_streams) =>
       /\ ~chk_required_ready_triggered'
       /\ ~chk_all_complete_triggered'
       /\ chk_required_fields' = chk_required_fields
  /\ ps_streams' # ps_streams => tm_events' = NoEvents

C15_StreamState ==
  /\ \A e \in DOMAIN tm_events : PS_Fired(e)
  /\ \A summary \in ps_summary : \A e \in DOMAIN summary.events : PS_Fired(e)
  /\ "required_ready" \in ps_sat => PS_Fired("required_ready")
  /\ PS_Fired("required_ready") => "required_ready" \in ps_sat
  /\ PS_Fired("all_complete") => "all_complete" \in ps_sat

C15_ResetClearsTrackingState == []C15_StreamState /\ [][C15_ResetStep]_vars

\* C15 witness: the first stream of a processor marked all_complete (and
\* required_ready); its second stream has returned a summary whose only
\* event is the required_ready it marked itself.
C15_Witness ==
  /\ ps_streams = 2
  /\ ps_prev_all_complete
  /\ ps_pc = "returned"
  /\ chk_required_fields # {}
  /\ PS_Fired("required_ready")
  /\ \A summary \in ps_summary : DOMAIN summary.events = {"required_ready"}

\* C16: a returned PerformanceSummary or StreamStats has required_ready_time
\* set iff required-ready fired in that stream, and its
\* time_savings_percent is None iff required_ready_time is None.
C16_ReturnedTimes ==
  /\ \A summary \in ps_summary :
       /\ summary.required_ready_time # None <=> PS_Fired("required_ready")
       /\ summary.required_ready_time =
            {summary.events[e] : e \in DOMAIN summary.events \cap {"required_ready"}}
       /\ summary.events = tm_events
       /\ SummaryTimeSavingsPercent(summary.total_time,
                                    summary.required_ready_time).kind
            = (IF summary.required_ready_time = None THEN "None" ELSE "value")
  /\ \A stats \in st_stats :
       /\ stats.required_ready_time # None <=> ts_n_required_ready >= 1
       /\ stats.required_ready_time = st_required_ready_time
       /\ StatsTimeSavingsPercent(stats.total_time,
                                  stats.required_ready_time).kind
            = (IF stats.required_ready_time = None THEN "None" ELSE "value")

\* C16: the time is the one read when the condition fired: process_stream
\* records a clock reading taken while it handles the firing partial,
\* simple_track the elapsed time of the state that has required_ready, and
\* neither changes it afterwards in that stream.
C16_FiringStep ==
  /\ LogCount(ps_log', <<"mark", "required_ready">>)
       > LogCount(ps_log, <<"mark", "required_ready">>)
       => /\ "required_ready" \in DOMAIN tm_events'
          /\ tm_events'["required_ready"] >= ps_elapsed'
          /\ tm_events'["required_ready"] <= ps_now'
  /\ (ts_mode = "simple_track" /\ ts_pc = "yielded" /\ ts_pc' # "yielded")
       => st_required_ready_time' =
            (IF ts_state.required_ready THEN {ts_state.elapsed}
             ELSE st_required_ready_time)
  /\ ~(ts_mode = "simple_track" /\ ts_pc = "yielded")
       => st_required_ready_time' = st_required_ready_time

C16_RequiredReadyTimeIffFired == []C16_ReturnedTimes /\ [][C16_FiringStep]_vars

\* C16 witness: process_stream returned the summary of a stream in which
\* required-ready fired at time 0, before the last partial, and that ended
\* at time 1.
C16_Witness ==
  /\ ps_pc = "returned"
  /\ ps_partial_count >= 2
  /\ LogFirst(ps_log, <<"mark", "required_ready">>) = 2
  /\ \A summary \in ps_summary :
       /\ summary.required_ready_time = {0}
       /\ summary.total_time = 1

\* C16 witness for simple_track: stats of a stream in which required-ready
\* never fired.
C16_WitnessNotFired ==
  /\ ts_pc = "done"
  /\ ts_mode = "simple_track"
  /\ ts_partial_count >= 2
  /\ ts_n_required_ready = 0
  /\ \A stats \in st_stats : stats.required_ready_time = None
  /\ st_stats # None

C17_WitnessSummary ==
  /\ fn_call.op = "time_savings_percent"
  /\ fn_call.class = "PerformanceSummary"
  /\ fn_call.total_time = 10
  /\ fn_call.required_ready_time = {4}
  /\ fn_call.result.kind = "value"

\* C18: process_stream and simple_track do not return a summary for a
\* stream that produced no partial (they end with an error instead).
C18_EmptyStreamFailsFast ==
  /\ ps_pc = "returned" => ps_partial_count > 0
  /\ \A summary \in ps_summary : summary.partial_count > 0
  /\ (ts_mode = "simple_track" /\ ts_pc = "done") => ts_produced > 0
  /\ \A stats \in st_stats : stats.partial_count > 0

\* C19: the k-th StreamState track_stream yields has partial_count = k,
\* every partial taken from the stream is yielded as one state (unless a
\* handler ended the run), and the partial_count of a returned StreamStats
\* or PerformanceSummary is the number of partials the stream produced.
C19_CounterCountsPartials ==
  /\ ts_pc = "yielded" =>
       /\ ts_state.partial_count = ts_yielded
       /\ ts_yielded = ts_produced
  /\ ts_pc \in {"loop", "done"} => ts_yielded = ts_produced
  /\ \A stats \in st_stats : stats.partial_count = ts_produced
  /\ \A summary \in ps_summary :
       summary.partial_count = LogCount(ps_log, <<"partial", "">>)

\* C19 witness: the third state of a stream has been yielded.
C19_Witness ==
  /\ ts_pc = "yielded"
  /\ ts_mode = "track_stream"
  /\ ts_yielded = 3
  /\ ts_state.partial_count = 3

\* C19 witness: simple_track returned the stats of a stream of two
\* partials.
C19_WitnessStats ==
  /\ ts_pc = "done"
  /\ ts_produced = 2
  /\ \E stats \in st_stats : stats.partial_count = 2

\* C19 witness: process_stream returned the summary of an empty stream.
C19_WitnessEmpty ==
  /\ ps_pc = "returned"
  /\ LogCount(ps_log, <<"partial", "">>) = 0
  /\ \E summary \in ps_summary : summary.partial_count = 0

\* C20: as long as no field has gone back from COMPLETE to NONE, every
\* condition that held (evaluated without the latch) for some partial
\* holds for the latest partial; and the latched checks reported each
\* condition that held exactly once.
C20_MonotonicSatisfactionStability ==
  /\ ~mn_run.regressed => mn_run.held \subseteq mn_run.holds
  /\ \A c \in mn_run.held :
       c \in DOMAIN mn_run.reports /\ mn_run.reports[c] = 1
  /\ DOMAIN mn_run.reports \subseteq mn_run.held

\* C20 witness: three partials without a regression; the required-fields
\* predicate has held since the first and the all-fields predicate holds
\* at the third.
C20_Witness ==
  /\ mn_run.step = 3
  /\ ~mn_run.regressed
  /\ mn_required_fields = {"name"}
  /\ mn_run.held = {"required_ready", "all_complete"}
  /\ mn_run.first["required_ready"] = 1
  /\ mn_run.first["all_complete"] = 3
  /\ mn_run.reports["required_ready"] = 1

\* C21: after any sequence of update_field calls on a UserProfileState,
\* has_required_fields() is True exactly when name_complete and
\* email_complete are True and name and email are not None, whatever bio
\* and age hold; is_complete() is True exactly when the four *_complete
\* flags are True; and one update_field(f, v, c) call changes nothing but
\* the attributes f and f_complete.
C21_StatePredicates ==
  /\ has_required_fields(up_state)
       = (/\ up_state.name_complete /\ up_state.email_complete
          /\ up_state.name # "None" /\ up_state.email # "None")
  /\ \A f \in {"bio", "age"}, v \in UP_ValueKinds, c \in BOOLEAN :
       has_required_fields(update_field(up_state, f, v, c))
         = has_required_fields(up_state)
  /\ is_complete(up_state)
       = (\A f \in UP_Fields : up_state[CompleteAttr(f)])

C21_UpdateStep ==
  \E f \in UP_Fields :
    \A a \in DOMAIN up_state :
      a \notin {f, CompleteAttr(f)} => up_state'[a] = up_state[a]

C21_UserProfileStatePredicates ==
  []C21_StatePredicates /\ [][C21_UpdateStep]_vars

\* Both flags set by update_field calls that stored None for name.
C21_Witness ==
  /\ up_state.name_complete /\ up_state.email_complete
  /\ up_state.name = "None" /\ up_state.email = "value"
  /\ up_state.bio = "value" /\ up_state.bio_complete
  /\ ~has_required_fields(up_state)

\* Required fields ready while bio and age are not complete.
C21_WitnessReady ==
  /\ has_required_fields(up_state)
  /\ ~is_complete(up_state)
  /\ up_state.age = "empty"

\* C22: in simulate_realistic_streaming the stream goes on while the job
\* of the fast strategy executes: a field update whose arrival time falls
\* inside the execution interval of the FAST job is applied to the data
\* within that interval, not only once the job has completed.
C22_StreamingContinuesDuringFastJob ==
  \A i \in 1..Len(field_updates), fast \in fast_strategy_result :
    LET update == field_updates[i]
    IN (/\ fast.next_job_start_time < update.timestamp
        /\ update.timestamp < fast.total_time)
       => \A t \in sim_applied[update.field_name] : t < fast.total_time

\* The next-job tasks that stream number s scheduled.
FT_JobsOf(s) == {i \in DOMAIN ft_jobs : ft_jobs[i].stream = s}

\* C23: process_stream schedules the next-job task at most once per call,
\* on the first partial whose required fields are all complete, whatever
\* the sequence of partials; every call starts by clearing
\* has_triggered_fast_transition and installing fresh metrics, so a second
\* call on the same processor can trigger again.
C23_OneJobPerCall ==
  \A s \in 1..MaxCalls : Cardinality(FT_JobsOf(s)) <= 1

C23_ScheduleStep ==
  /\ Len(ft_jobs') > Len(ft_jobs)
       => /\ "required" \notin ft_sat
          /\ "required" \in ft_sat'
          /\ ft_jobs' = Append(ft_jobs, [state |-> "scheduled",
                                         stream |-> ft_streams])
  /\ (/\ ft_streams' = ft_streams
      /\ ft_callback
      /\ "required" \notin ft_sat
      /\ "required" \in ft_sat')
       => Len(ft_jobs') = Len(ft_jobs) + 1

C23_StartStep ==
  ft_streams' # ft_streams
    => /\ ~ft_has_triggered_fast_transition'
       /\ ft_stream_start_time' # None
       /\ ft_required_fields_ready_time' = None
       /\ ft_all_fields_ready_time' = None
       /\ ft_next_job_start_time' = None
       /\ ft_next_job_complete_time' = None

C23_AtMostOneJobPerCall ==
  []C23_OneJobPerCall /\ [][C23_ScheduleStep /\ C23_StartStep]_vars

\* A second call on the processor has scheduled its own task after the
\* first call did, and went on to a later partial with the required fields
\* complete.
C23_Witness ==
  /\ Len(ft_jobs) = 2
  /\ ft_jobs[1].stream = 1
  /\ ft_jobs[2].stream = 2
  /\ ft_update_count >= 2
  /\ ft_has_triggered_fast_transition

\* C24: an exception raised by the on_fast_transition callback inside the
\* next-job task does not reach process_stream, which goes on consuming the
\* partials and returns the final profile; the metrics then have
\* next_job_start_time set and next_job_complete_time unset.
C24_FailureStep ==
  (\E i \in DOMAIN ft_jobs :
     ft_jobs[i].state = "running" /\ ft_jobs'[i].state = "failed")
    => ft_pc' = ft_pc /\ ft_error' = ft_error

C24_FailedJobMetrics ==
  \A i \in DOMAIN ft_jobs :
    (ft_jobs[i].state = "failed" /\ ft_jobs[i].stream = ft_streams)
      => /\ ft_next_job_start_time # None
         /\ ft_next_job_complete_time = None

C24_CallbackFailureIsContained ==
  []C24_FailedJobMetrics /\ [][C24_FailureStep]_vars

\* C25: over any sequence of process_stream calls on one processor, a call
\* starting while the task of an earlier call is still pending included, a
\* job task writes only the metrics of the stream that scheduled it; so in
\* the current metrics next_job_start_time set implies
\* required_fields_ready_time set, and next_job_complete_time set implies
\* next_job_start_time set.
C25_JobWritesOwnMetrics ==
  /\ ft_next_job_start_time # None => ft_required_fields_ready_time # None
  /\ ft_next_job_complete_time # None => ft_next_job_start_time # None

\* C30: process_stream writes metrics.all_fields_ready_time at most once
\* per stream, at the first partial for which the six fields are complete,
\* and never overwrites it; whenever it is set, required_fields_ready_time
\* is set already and required_fields_ready_time <= all_fields_ready_time.
C30_AllReadyStep ==
  ft_streams' = ft_streams
    => /\ ft_all_fields_ready_time # None
            => ft_all_fields_ready_time' = ft_all_fields_ready_time
       /\ ft_all_fields_ready_time' # ft_all_fields_ready_time
            => "all" \notin ft_sat /\ "all" \in ft_sat'
       /\ ("all" \notin ft_sat /\ "all" \in ft_sat')
            => ft_all_fields_ready_time' # None

C30_RequiredBeforeAll ==
  \A a \in ft_all_fields_ready_time :
    /\ ft_required_fields_ready_time # None
    /\ \A r \in ft_required_fields_ready_time : r <= a

C30_AllFieldsReadyTimeWrittenOnce ==
  []C30_RequiredBeforeAll /\ [][C30_AllReadyStep]_vars

\* Required fields ready at one partial, all fields at a later one, and a
\* further partial with all fields complete received after that.
C30_Witness ==
  /\ ft_required_fields_ready_time = Some(1)
  /\ ft_all_fields_ready_time = Some(2)
  /\ ft_update_count = 3
  /\ ft_streams = 2

\* C29: all-complete never precedes required-ready.  In track_stream,
\* simple_track and BAMLStreamProcessor.process_stream, when all-complete
\* fires at a partial, required-ready has fired at that partial or at an
\* earlier one of the same stream; so whenever all_complete_time (or the
\* "all_complete" event) is set, required_ready_time is set and
\* required_ready_time <= all_complete_time.
C29_TrackStream ==
  /\ "all_complete" \in ts_notified => "required_ready" \in ts_notified
  /\ ts_state.all_complete => "required_ready" \in ts_notified
  /\ ts_n_all_complete > 0 => ts_n_required_ready > 0

C29_SimpleTrack ==
  /\ \A a \in st_all_complete_time :
       /\ st_required_ready_time # None
       /\ \A r \in st_required_ready_time : r <= a
  /\ \A stats \in st_stats :
       \A a \in stats.all_complete_time :
         /\ stats.required_ready_time # None
         /\ \A r \in stats.required_ready_time : r <= a

C29_EventsInOrder(events) ==
  "all_complete" \in DOMAIN events
    => /\ "required_ready" \in DOMAIN events
       /\ events["required_ready"] <= events["all_complete"]

C29_ProcessStream ==
  /\ C29_EventsInOrder(tm_events)
  /\ \A summary \in ps_summary :
       /\ C29_EventsInOrder(summary.events)
       /\ "all_complete" \in DOMAIN summary.events
            => summary.required_ready_time # None
  /\ LogFirst(ps_log, <<"mark", "all_complete">>) > 0
       => /\ LogFirst(ps_log, <<"mark", "required_ready">>) > 0
          /\ LogFirst(ps_log, <<"mark", "required_ready">>)
               < LogFirst(ps_log, <<"mark", "all_complete">>)

C29_AllCompleteNeverPrecedesRequiredReady ==
  C29_TrackStream /\ C29_SimpleTrack /\ C29_ProcessStream

\* process_stream returned: required-ready fired at the first partial and
\* all-complete at a later one, at a later time.
C29_Witness ==
  /\ ps_pc = "returned"
  /\ chk_required_fields = {"name"}
  /\ "all_complete" \in DOMAIN tm_events
  /\ tm_events["required_ready"] = 0
  /\ tm_events["all_complete"] = 1
  /\ LogFirst(ps_log, <<"mark", "required_ready">>) = 2
  /\ ps_partial_count = 3

\* simple_track returned stats with both times, set at different partials.
C29_WitnessStats ==
  /\ ts_pc = "done"
  /\ ts_mode = "simple_track"
  /\ \E stats \in st_stats :
       /\ stats.required_ready_time = Some(0)
       /\ stats.all_complete_time = Some(1)

\* track_stream fired both at one partial.
C29_WitnessSamePartial ==
  /\ ts_mode = "track_stream"
  /\ ts_state.all_complete
  /\ ts_state.required_ready
  /\ ts_partial_count = 2

\* C26: update_field schedules a ready-task on every update made while
\* has_required_fields() is true, so several ready-tasks can be pending at
\* once; under every interleaving ProcessUser is invoked at most once per
\* StreamingProcessor, next_job_triggered being tested and set with no
\* suspension point in between.
C26_ProcessUserOnce ==
  /\ sp_process_user_calls <= 1
  /\ sp_process_user_calls = 1 <=> sp_next_job_triggered

C26_ScheduleStep ==
  (up_state' # up_state /\ has_required_fields(up_state'))
    => sp_tasks' > sp_tasks

C26_ProcessUserAtMostOnce ==
  []C26_ProcessUserOnce /\ [][C26_ScheduleStep]_vars

\* Ready-tasks of two calls have run or are pending, several at once, and
\* ProcessUser has been invoked by the first of them only.
C26_Witness ==
  /\ sp_tasks >= 3
  /\ sp_calls = 2
  /\ sp_process_user_calls = 1
  /\ sp_welcome_message # None

\* C27: when process_user_input returns with has_required_fields() true,
\* next_job_triggered is true, also when name and email become complete
\* through the final response only.
C27_ReturnedReadyImpliesTriggered ==
  (sp_pc = "returned" /\ has_required_fields(up_state))
    => sp_next_job_triggered

\* C28: when the stream raises while process_user_input iterates it, the
\* error is not propagated: the iteration stops, get_final_response is
\* still awaited and the non-empty fields of the final record are applied
\* with is_complete=True, so that the ready-task can still be scheduled
\* from the final record.
C28_RaiseStep ==
  (~sp_stream_raised /\ sp_stream_raised')
    => /\ sp_pc' = "await_final"
       /\ sp_error' = "none"
       /\ up_state' = up_state

C28_FinalStep ==
  (sp_stream_raised /\ sp_pc = "await_final" /\ sp_pc' = "returned")
    => /\ \A f \in UP_Fields, nonempty \in sp_final' :
            IF f \in nonempty
            THEN up_state'[f] = "value" /\ up_state'[CompleteAttr(f)]
            ELSE /\ up_state'[f] = up_state[f]
                 /\ up_state'[CompleteAttr(f)] = up_state[CompleteAttr(f)]
       /\ \A nonempty \in sp_final' :
            (nonempty # {} /\ has_required_fields(up_state'))
              => sp_tasks' > sp_tasks

C28_StreamErrorNotPropagated ==
  [][C28_RaiseStep /\ C28_FinalStep]_vars

\* The stream raised before any partial, and the final record alone made
\* name and email complete and scheduled the ready-task.
C28_Witness ==
  /\ sp_pc = "returned"
  /\ sp_stream_raised
  /\ sp_partial_count = 0
  /\ sp_calls = 1
  /\ has_required_fields(up_state)
  /\ ~up_state.bio_complete
  /\ sp_tasks > 0

\* C31: when the schema marks no field as required, required-ready fires
\* on the first partial of the stream whatever the partial contains, in
\* track_stream and in RequiredFieldsChecker.check_required_ready, and it
\* never fires for a stream with no partial.
C31_TrackStream ==
  ts_required_fields = {}
    => /\ ts_produced = 0
            => /\ "required_ready" \notin ts_notified
               /\ ts_n_required_ready = 0
               /\ ~ts_state.required_ready
               /\ st_required_ready_time = None
               /\ \A stats \in st_stats : stats.required_ready_time = None
       /\ ts_produced >= 1 => "required_ready" \in ts_notified
       /\ ts_state.required_ready => ts_state.partial_count = 1
       /\ ts_yielded >= 1 => ts_n_required_ready = 1

C31_Checker ==
  chk_required_fields = {}
    => /\ (chk_last.op = "check_required_ready" /\ ~chk_last.before)
            => chk_last.result
       /\ chk_last.op = "none"
            => ~chk_required_ready_triggered /\ chk_n_required_true = 0

C31_EmptyRequiredFiresOnFirstPartial == C31_TrackStream /\ C31_Checker

\* No required field, a first partial with no field at all: required-ready
\* fired on it, and the stream went on.
C31_Witness ==
  /\ ts_required_fields = {}
  /\ ts_mode = "track_stream"
  /\ ts_ever = {}
  /\ ts_n_required_ready = 1
  /\ ts_yielded = 2

\* A fresh checker with no required field returned True for a map with no
\* COMPLETE field.
C31_WitnessChecker ==
  /\ chk_required_fields = {}
  /\ chk_last.op = "check_required_ready"
  /\ ~chk_last.before
  /\ chk_last.result
  /\ \A f \in DOMAIN chk_last.map : chk_last.map[f] # COMPLETE

\* simple_track on a stream with no partial: nothing fired.
C31_WitnessEmptyStream ==
  /\ ts_required_fields = {}
  /\ ts_pc = "done"
  /\ ts_produced = 0
  /\ st_stats # None


\* ------------------------------------------------------------------ C32
\* Invocations of a handler of simple_track so far, and the number of
\* yielded states in which its condition fired.
C32_Calls(h) == Cardinality({i \in 1..Len(ts_calls) : ts_calls[i][1] = h})

C32_Fired(h) ==
  IF h = "on_required_ready" THEN ts_n_required_ready ELSE ts_n_all_complete

\* While a handler is awaited, it was given the fields of the state whose
\* flag fired, and the matching time local holds that state's elapsed.
C32_HandlerGetsTriggeringState ==
  /\ ts_pc = "st_await_required"
       => /\ ts_state.required_ready
          /\ RequiredSubset(ts_required_fields, ts_state.fields)
          /\ ts_calls[Len(ts_calls)]
               = <<"on_required_ready", ts_state.partial_count>>
          /\ st_required_ready_time = Some(ts_state.elapsed)
  /\ ts_pc = "st_await_all"
       => /\ ts_state.all_complete
          /\ AllKeysEqual(ts_state.fields)
          /\ ts_calls[Len(ts_calls)]
               = <<"on_all_ready", ts_state.partial_count>>
          /\ st_all_complete_time = Some(ts_state.elapsed)

C32_TimesOnlyFromTriggers ==
  /\ st_required_ready_time # None => ts_n_required_ready = 1
  /\ st_all_complete_time # None => ts_n_all_complete = 1

\* The counts of one handler once the loop body is over for every state
\* yielded so far ("settled"): never twice, never without the handler or
\* without a trigger, and once for a trigger.
C32_Counts(settled) ==
  \A h \in {"on_required_ready", "on_all_ready"} :
    /\ C32_Calls(h) <= 1
    /\ h \notin ts_handlers => C32_Calls(h) = 0
    /\ C32_Calls(h) <= C32_Fired(h)
    /\ (h \in ts_handlers /\ settled) => C32_Calls(h) = C32_Fired(h)

\* C32: simple_track invokes on_required_ready exactly once iff
\* required-ready fired during the stream and on_all_ready exactly once iff
\* all-complete fired, each with the fields of the triggering partial, never
\* twice for one trigger, and required_ready_time / all_complete_time are
\* the elapsed values of the triggering states.  Stated for every point
\* where simple_track is between two partials or has ended.
C32_HandlersOncePerTrigger ==
  ts_mode = "simple_track" /\ ts_pc # "idle"
    => /\ C32_Counts(ts_pc \in {"loop", "done", "error"})
       /\ C32_HandlerGetsTriggeringState
       /\ C32_TimesOnlyFromTriggers

\* The same for the runs in which no handler raised.
C32_UnlessHandlerRaised ==
  ts_mode = "simple_track" /\ ts_pc # "idle"
    => /\ C32_Counts(ts_pc \in {"loop", "done"}
                       \/ (ts_pc = "error" /\ ts_error # "handler"))
       /\ C32_HandlerGetsTriggeringState
       /\ C32_TimesOnlyFromTriggers

\* simple_track returned after both handlers were invoked, on different
\* partials.
C32_Witness ==
  /\ ts_mode = "simple_track"
  /\ ts_pc = "done"
  /\ Len(ts_calls) = 2
  /\ ts_calls[1][1] = "on_required_ready"
  /\ ts_calls[2][1] = "on_all_ready"
  /\ ts_calls[1][2] < ts_calls[2][2]


\* ------------------------------------------------------------------ C33
\* A computed time_savings_percent lies in 0..100.
C33_InRange(pct) ==
  /\ pct.kind = "value"
  /\ pct.value.num >= 0
  /\ pct.value.num <= 100 * pct.value.den

\* The part that holds: a returned summary with required_ready_time set has
\* 0 <= required_ready_time <= total_time and a percentage in 0..100.
C33_ReturnedInRange ==
  /\ \A stats \in st_stats : \A t \in stats.required_ready_time :
       /\ 0 <= t /\ t <= stats.total_time
       /\ C33_InRange(StatsTimeSavingsPercent(stats.total_time,
                                              stats.required_ready_time))
  /\ \A summary \in ps_summary : \A t \in summary.required_ready_time :
       /\ 0 <= t /\ t <= summary.total_time
       /\ C33_InRange(SummaryTimeSavingsPercent(summary.total_time,
                                                summary.required_ready_time))

\* C33: for every StreamStats of simple_track and every PerformanceSummary
\* of process_stream with required_ready_time set,
\* 0 <= required_ready_time <= total_time and time_savings_percent
\* evaluates without error to a value in 0..100, also when the trigger is
\* at elapsed time 0 and total_time is 0.
C33_TimeSavingsEvaluates ==
  /\ C33_ReturnedInRange
  /\ ts_error # "ZeroDivisionError"
  /\ ps_error # "ZeroDivisionError"

\* A returned StreamStats whose required-ready time is the total time.
C33_WitnessNoSavings ==
  \E stats \in st_stats :
    /\ stats.total_time > 0
    /\ stats.required_ready_time = Some(stats.total_time)


\* ------------------------------------------------------------------ C35
\* A strategy's job has run once its result is there; a result is written
\* by the completing job only, so a job that runs again shows as a result
\* replacing a result.
C35_JobStep ==
  /\ fast_strategy_result' # fast_strategy_result
       => fast_strategy_result = None /\ fast_strategy_result' # None
  /\ full_strategy_result' # full_strategy_result
       => full_strategy_result = None /\ full_strategy_result' # None

C35_Results ==
  /\ sim_pc \in {"display", "done"} => full_strategy_result # None
  /\ \A fast \in fast_strategy_result : \A full \in full_strategy_result :
       fast.next_job_start_time <= full.next_job_start_time
  /\ \A fast \in fast_strategy_result : fast.strategy_name = "FAST"
  /\ \A full \in full_strategy_result : full.strategy_name = "FULL"

\* C35: simulate_realistic_streaming runs the FAST job at most once and the
\* FULL job exactly once per run, and the FAST job's start time is never
\* later than the FULL job's start time.
C35_FastOnceFullOnce == []C35_Results /\ [][C35_JobStep]_vars

\* The run is over with both results, FAST started before FULL.
C35_Witness ==
  /\ sim_pc = "done"
  /\ \E fast \in fast_strategy_result : \E full \in full_strategy_result :
       fast.next_job_start_time < full.next_job_start_time


\* ------------------------------------------------------------------ C34
\* The updates in which name, email and is_verified are all there with
\* state "Complete", read off the list.
C34_CompleteUpdates ==
  {i \in 1..Len(updates) :
     \A f \in {"name", "email", "is_verified"} :
       f \in DOMAIN updates[i].fields /\ updates[i].fields[f] = "Complete"}

C34_HandledUpdates == 1..(cf_idx - 1)

\* At most one trigger, at the first handled update that is complete, and
\* a trigger as soon as such an update is handled.
C34_TriggerOnceAtFirstComplete ==
  /\ Len(cf_triggers) <= 1
  /\ \A k \in 1..Len(cf_triggers) :
       /\ cf_triggers[k] \in C34_CompleteUpdates
       /\ \A i \in C34_CompleteUpdates : cf_triggers[k] <= i
  /\ C34_CompleteUpdates \cap C34_HandledUpdates # {} => Len(cf_triggers) = 1
  /\ cf_has_triggered_fast_transition <=> Len(cf_triggers) = 1
  /\ cf_next_job_task # "None" <=> Len(cf_triggers) = 1

\* The loop is not held up by the job: once it is over every update was
\* handled, and the update that is due before the job can be done was
\* handled while the job task was running.
C34_LaterUpdatesDuringJob ==
  /\ cf_pc \in {"await_task", "returned"} => cf_idx = Len(updates) + 1
  /\ \A k \in 1..Len(cf_triggers) :
       /\ \A i \in cf_during : i > cf_triggers[k]
       /\ cf_pc \in {"await_task", "returned"}
            => \A i \in (cf_triggers[k] + 1)..Len(updates) :
                 updates[i].time < updates[cf_triggers[k]].time + CF_job_sleep
                   => i \in cf_during

C34_ReturnsAfterJob ==
  cf_pc = "returned" => cf_next_job_task \in {"None", "done"}

C34_State ==
  cf_pc # "idle"
    => /\ C34_TriggerOnceAtFirstComplete
       /\ C34_LaterUpdatesDuringJob
       /\ C34_ReturnsAfterJob

\* An update is handled while the job task exists and is not done.
C34_UpdateStep ==
  cf_idx' # cf_idx /\ cf_next_job_task \in {"created", "sleeping"}
    => cf_idx \in cf_during'

\* C34: simulate_streaming_with_states triggers the fast transition at
\* most once, at the first update in which name, email and is_verified all
\* have state "Complete" (a missing required field counts as Pending),
\* keeps processing later updates while the job task runs, and returns
\* only after the job task, if one was created, has completed.
C34_OneTriggerUpdatesContinueJobAwaited ==
  []C34_State /\ [][C34_UpdateStep]_vars

\* The function has returned; its one trigger was at update 4 and the two
\* later updates were handled while the job was running.
C34_Witness ==
  /\ cf_pc = "returned"
  /\ cf_triggers = <<4>>
  /\ cf_during = {5, 6}
  /\ cf_next_job_task = "done"

\* The job was done before the last update was handled.
C34_WitnessJobDoneFirst ==
  /\ cf_pc = "returned"
  /\ cf_during = {5}


\* ------------------------------------------------------------------ C36
\* At the trigger check, critical_ready implies five critical values.
C36_ReadyImpliesFiveValues ==
  ce_critical_ready => Cardinality(ce_critical_values) = 5

\* The task is created once at most, at the first partial whose critical
\* fields are all non-None with no state other than "Complete", and not
\* without such a partial.
C36_CreatedOnceAtFirstEligible ==
  /\ Len(ce_created) <= 1
  /\ ce_created = IF ce_first_eligible = 0 THEN <<>>
                  ELSE <<ce_first_eligible>>
  /\ ce_onboarding # "none" <=> Len(ce_created) = 1
  /\ ce_has_triggered_fast_transition <=> Len(ce_created) = 1

\* C36: complex_employee_streaming_demo: at the trigger check of every
\* partial critical_ready = True implies len(critical_values) == 5, and
\* the onboarding task is created at most once per stream, on the first
\* partial in which all five critical fields are non-None and none has a
\* state other than "Complete".
C36_LengthGuardNeverSuppressesOneTask ==
  ce_pc # "idle"
    => C36_ReadyImpliesFiveValues /\ C36_CreatedOnceAtFirstEligible

\* The second of three partials created the task; the third passes the
\* check of the critical fields again and creates nothing.
C36_Witness ==
  /\ ce_update_count = 3
  /\ ce_created = <<2>>
  /\ ce_critical_ready
  /\ ce_onboarding = "done"
  /\ ce_pc = "returned"

\* A partial with a critical value for every field that does not trigger:
\* one of them is not Complete yet.
C36_WitnessNotReady ==
  /\ ce_update_count = 1
  /\ ~ce_critical_ready
  /\ Cardinality(ce_critical_values) = 5
  /\ ce_created = <<>>

====
